---- MODULE Spec2Model ----
(***************************************************************************)
(* Model of the logical-flow translation core of ovn-controller            *)
(* (controller/lflow.c): the resource-reference index, the row compiler    *)
(* consider_logical_flow__, the incremental handlers and the address-set   *)
(* fast path.                                                              *)
(*                                                                         *)
(* The collaborators whose code lives in other files (the desired flow     *)
(* table of ofctrl.c, the conjunction-id allocator, the lflow cache and    *)
(* the expression compiler) are modelled from their contracts.            *)
(***************************************************************************)
EXTENDS Integers, Sequences, FiniteSets, TLC

\* ------------------------------------------------------------------ bounds

\* Address constants are 1..MaxAddr (the low byte of the address).
MaxAddr == 3
\* Conjunction ids are 1..MaxConjId (id 0 means "none").
MaxConjId == 6
\* The ids of the load-balancer pool are 1..MaxLbId.
MaxLbId == 3

\* ----------------------------------------------------------- static input

\* Datapaths, named by their tunnel key.  Both are logical switches.
Datapaths == {1, 2}

\* A logical router, for the rows that are bound to one.
Routers == {3}

\* struct local_datapath.is_switch
is_switch(dp) == dp \in {1, 2}

Addrs == 1..MaxAddr

\* The Logical_Flow rows the model knows.  Each row: the datapaths it is
\* bound to (logical_datapath, or the members of logical_dp_group), an
\* abstract match and abstract actions:
\*   as        address set referenced as  ip4.src == $as   ("": none)
\*   port      port name referenced as    inport == "port" ("": none)
\*   sets      number of further constant two-valued dimensions (f == {1, 2})
\*   act_port  port name the actions load into outport        ("": none)
\*   resident  port name referenced as   is_chassis_resident("port")
\*             in conjunction with the rest of the match       ("": none)
\*   match_ok, actions_ok   whether the match / the actions parse
\*   pg        port group referenced as   inport == @pg      ("": none)
\*   as_const  constant c the address set is joined with, as in
\*             ip4.src == {$as, c}                            (0: none)
\*   io_port   the row's in_out_port tag                      ("": none)
\*   pipeline  "ingress" or "egress"
\*   port_reg  the register the port term pins: "inport" or "outport"
\* The rows of a pipeline are in the same table and priority, so that
\* conjunctive clause flows of different rows can coincide; the rows of the
\* egress pipeline have no conjunction.
LFlow(dps, dp_group, as, port, sets, act_port) ==
    [dps |-> dps, dp_group |-> dp_group, as |-> as, port |-> port, sets |-> sets,
     act_port |-> act_port, resident |-> "", match_ok |-> TRUE, actions_ok |-> TRUE,
     pg |-> "", as_const |-> 0, io_port |-> "", pipeline |-> "ingress",
     port_reg |-> "inport"]

lflow_table == <<
    LFlow(<<2>>,    FALSE, "as1", "",   0, ""),
    LFlow(<<1, 2>>, TRUE,  "as1", "",   1, ""),
    LFlow(<<1, 2>>, TRUE,  "",    "",   2, ""),
    LFlow(<<1>>,    FALSE, "",    "p1", 0, ""),
    LFlow(<<1>>,    FALSE, "",    "",   0, "p1"),
    [LFlow(<<1>>,   FALSE, "",    "",   0, "") EXCEPT !.resident = "cr1"],
    LFlow(<<1>>,    FALSE, "as1", "p1", 0, ""),
    [LFlow(<<1>>,   FALSE, "",    "",   0, "") EXCEPT !.actions_ok = FALSE],
    [LFlow(<<1, 2>>, TRUE, "as1", "",   0, "") EXCEPT !.match_ok = FALSE],
    LFlow(<<1, 2>>, TRUE,  "",    "",   2, ""),
    LFlow(<<1, 2>>, TRUE,  "",    "",   2, ""),
    LFlow(<<1, 2>>, TRUE,  "",    "",   2, ""),
    LFlow(<<1, 2>>, TRUE,  "",    "",   0, ""),
    [LFlow(<<1>>,   FALSE, "",    "",   0, "") EXCEPT !.pg = "pg1"],
    [LFlow(<<1>>,   FALSE, "as1", "",   0, "") EXCEPT !.as_const = 9],
    [LFlow(<<1>>,   FALSE, "",    "p1", 0, "") EXCEPT !.io_port = "p1"],
    [LFlow(<<1>>,   FALSE, "",    "p1", 2, "") EXCEPT !.io_port = "p1"],
    [LFlow(<<1>>,   FALSE, "",    "p1", 0, "") EXCEPT !.pipeline = "egress",
                                                      !.port_reg = "outport"],
    LFlow(<<3>>,    FALSE, "",    "p1", 0, ""),
    [LFlow(<<1>>,   FALSE, "",    "p1", 0, "") EXCEPT !.pipeline = "egress"],
    LFlow(<<2>>,    FALSE, "",    "",   2, ""),
    LFlow(<<1>>,    FALSE, "",    "",   2, "") >>

Rows == DOMAIN lflow_table

PortNames == {"p1"}
\* The chassis-redirect ports.
CrPortNames == {"cr1"}
AddrSetNames == {"as1"}

\* l_ctx_in->port_groups: the ports of each port group.  The parser
\* replaces @pg by the names of its ports; the groups do not change.
port_groups == [pg1 |-> "p1"]

\* enum ref_type, and the (type, name) key of ref_lflow_table.  A multicast
\* group key is name plus datapath key (get_mc_group_key); dp is 0 otherwise.
RefKey(type, name, dp) == [type |-> type, name |-> name, dp |-> dp]

EmptyFn == [x \in {} |-> 0]

\* f with key k bound to v (hmap_insert / shash_replace).
PutFn(f, k, v) == [x \in (DOMAIN f) \cup {k} |-> IF x = k THEN v ELSE f[x]]

\* f without key k (hmap_remove).
DelFn(f, k) == [x \in (DOMAIN f) \ {k} |-> f[x]]

\* The elements of a set of integers in ascending order (table iteration).
RECURSIVE SetToSeq(_)
SetToSeq(S) ==
    IF S = {} THEN <<>>
    ELSE LET x == CHOOSE y \in S : \A z \in S : y <= z
         IN <<x>> \o SetToSeq(S \ {x})

\* ------------------------------------------- resource-reference index (R)

\* struct lflow_resource_ref: ref_lflow_table maps a reference key to the
\* rows that use it (with their ref_count); lflow_ref_table maps a row to
\* the list of its references.
lfrr_empty == [ref_lflow_table |-> EmptyFn, lflow_ref_table |-> EmptyFn]

ref_lflow_lookup(ref_lflow_table_, key) == key \in DOMAIN ref_lflow_table_

lflow_ref_lookup(lflow_ref_table_, lflow) == lflow \in DOMAIN lflow_ref_table_

\* Variant without the "mapping already existed" check: it inserts always.
lflow_resource_add_unchecked(l, key, lflow, ref_count) ==
    [ref_lflow_table |->
         PutFn(l.ref_lflow_table, key,
               PutFn(IF key \in DOMAIN l.ref_lflow_table
                     THEN l.ref_lflow_table[key] ELSE EmptyFn,
                     lflow, ref_count)),
     lflow_ref_table |->
         PutFn(l.lflow_ref_table, lflow,
               Append(IF lflow \in DOMAIN l.lflow_ref_table
                      THEN l.lflow_ref_table[lflow] ELSE <<>>,
                      [key |-> key, ref_count |-> ref_count]))]

lflow_resource_add(l, key, lflow, ref_count) ==
    LET rlfn == ref_lflow_lookup(l.ref_lflow_table, key)
        lfrn == lflow_ref_lookup(l.lflow_ref_table, lflow)
    IN IF rlfn /\ lfrn /\ lflow \in DOMAIN l.ref_lflow_table[key]
       THEN l
       ELSE [ref_lflow_table |->
                 PutFn(l.ref_lflow_table, key,
                       PutFn(IF rlfn THEN l.ref_lflow_table[key] ELSE EmptyFn,
                             lflow, ref_count)),
             lflow_ref_table |->
                 PutFn(l.lflow_ref_table, lflow,
                       Append(IF lfrn THEN l.lflow_ref_table[lflow] ELSE <<>>,
                              [key |-> key, ref_count |-> ref_count]))]

\* Variant that leaves the row in the reference's bucket.
ref_lflow_unlink_kept(ref_lflow_table_, key, lflow) == ref_lflow_table_

\* Variant that unlinks the row and keeps a bucket that became empty.
ref_lflow_unlink_keep_empty(ref_lflow_table_, key, lflow) ==
    IF key \notin DOMAIN ref_lflow_table_ THEN ref_lflow_table_
    ELSE PutFn(ref_lflow_table_, key, DelFn(ref_lflow_table_[key], lflow))

\* One step of the LIST_FOR_EACH_SAFE loop of lflow_resource_destroy_lflow:
\* unlink the node from its reference bucket, dropping the bucket when empty.
ref_lflow_unlink(ref_lflow_table_, key, lflow) ==
    IF key \notin DOMAIN ref_lflow_table_ THEN ref_lflow_table_
    ELSE LET uuids == DelFn(ref_lflow_table_[key], lflow)
         IN IF DOMAIN uuids = {} THEN DelFn(ref_lflow_table_, key)
            ELSE PutFn(ref_lflow_table_, key, uuids)

RECURSIVE ref_lflow_unlink_all(_, _, _)
ref_lflow_unlink_all(ref_lflow_table_, refs, lflow) ==
    IF refs = <<>> THEN ref_lflow_table_
    ELSE ref_lflow_unlink_all(ref_lflow_unlink(ref_lflow_table_, Head(refs).key, lflow),
                              Tail(refs), lflow)

lflow_resource_destroy_lflow(l, lflow) ==
    IF ~lflow_ref_lookup(l.lflow_ref_table, lflow) THEN l
    ELSE [ref_lflow_table |->
              ref_lflow_unlink_all(l.ref_lflow_table, l.lflow_ref_table[lflow], lflow),
          lflow_ref_table |-> DelFn(l.lflow_ref_table, lflow)]

lflow_resource_clear(l) == lfrr_empty

\* ----------------------------------------------- desired flow table (sink)

\* A match: 0 in a field means "not matched".
Match(src, c1, c2, inport, conj_id) ==
    [src |-> src, c1 |-> c1, c2 |-> c2, inport |-> inport, outport |-> 0,
     conj_id |-> conj_id]

\* The encoded actions of a row: the row, and the port key its actions load
\* (0: none, or the port was not found).  NoAct: conjunction clauses only.
Act(lflow, port) == [lflow |-> lflow, port |-> port]

NoAct == Act(0, 0)

\* A desired flow.  act is its encoded actions; conjs its conjunction clauses;
\* owners the rows linked to the flow; as_name/as_ip the address-set
\* annotation under which the flow is indexed ("": not indexed).
Flow(dp, m, conjs, owner, act, as_name, as_ip) ==
    [dp |-> dp, m |-> m, conjs |-> conjs, owners |-> {owner}, act |-> act,
     as_name |-> as_name, as_ip |-> as_ip]

\* ofctrl_add_flow_metered: a flow equal to one this owner already has is
\* dropped as a duplicate.
ofctrl_add_flow(ft, f, owner) ==
    IF \E g \in ft : /\ g.dp = f.dp /\ g.m = f.m /\ g.act = f.act
                     /\ g.conjs = {} /\ owner \in g.owners
    THEN ft
    ELSE ft \cup {f}

\* ofctrl_add_or_append_flow: clauses are appended to the conjunctive flow
\* with the same match, which then is shared and no longer indexed by
\* address-set address.
ofctrl_add_or_append_flow(ft, f, owner) ==
    LET existing == {g \in ft : g.dp = f.dp /\ g.m = f.m /\ g.conjs # {}}
    IN IF existing = {} THEN ft \cup {f}
       ELSE LET g == CHOOSE x \in existing : TRUE
            IN (ft \ {g}) \cup
               {[g EXCEPT !.conjs = @ \cup f.conjs, !.owners = @ \cup {owner},
                          !.as_name = "", !.as_ip = 0]}

\* The rows whose flows ofctrl_flood_remove_flows removes: the given ones
\* and, transitively, every row sharing a flow with one of them.
RECURSIVE flood_remove_nodes(_, _)
flood_remove_nodes(ft, nodes) ==
    LET more == nodes \cup UNION {g.owners : g \in {h \in ft : h.owners \cap nodes # {}}}
    IN IF more = nodes THEN nodes ELSE flood_remove_nodes(ft, more)

ofctrl_flood_remove_flows(ft, nodes) ==
    {g \in ft : g.owners \cap flood_remove_nodes(ft, nodes) = {}}

\* The constant an address of an address set is parsed to: address 2 is an
\* IPv4 network, address 3 an IPv6 address, the addresses above 3 are
\* Ethernet addresses and address 1 is an IPv4 address.
expr_constant_of(ip) ==
    [value |-> ip,
     masked |-> ip = 2,
     mask |-> IF ip = 2 THEN "255.255.255.0" ELSE "",
     format |-> IF ip <= 2 THEN "LEX_F_IPV4"
                ELSE IF ip = 3 THEN "LEX_F_IPV6" ELSE "LEX_F_ETHERNET"]

\* The mask make_cmp__ gives the comparison of a field with a constant: the
\* constant's own mask, or the exact-match mask of its format.
cmp_mask(c) ==
    IF c.masked THEN c.mask
    ELSE IF c.format = "LEX_F_IPV4" THEN "255.255.255.255"
    ELSE IF c.format = "LEX_F_IPV6" THEN "ffff:ffff:ffff:ffff:ffff:ffff:ffff:ffff"
    ELSE "ff:ff:ff:ff:ff:ff"

\* The flows ofctrl_remove_flows_for_as_ip finds indexed under
\* (owner, as_info): the name of the set, the address and its mask.
as_ip_flows(ft, owner, as_info) ==
    {g \in ft : /\ owner \in g.owners
                /\ g.as_name = as_info.name
                /\ g.as_ip = as_info.ip
                /\ cmp_mask(expr_constant_of(g.as_ip)) = as_info.mask}

\* ofctrl_remove_flows_for_as_ip: [ok, ft].  A row without any flow has
\* nothing to remove; otherwise the indexed flows are removed when their
\* number is the expected one.
ofctrl_remove_flows_for_as_ip(ft, owner, as_info, expected) ==
    IF ~\E g \in ft : owner \in g.owners THEN [ok |-> TRUE, ft |-> ft]
    ELSE LET fs == as_ip_flows(ft, owner, as_info)
         IN IF fs = {} \/ Cardinality(fs) # expected
            THEN [ok |-> FALSE, ft |-> ft]
            ELSE [ok |-> TRUE, ft |-> ft \ fs]

\* ------------------------------------------- conjunction-id allocator (CID)

\* conj_ids: the set of allocations [lflow, dp, start, n].
conj_id_allocated(conj_ids_, id) ==
    \E a \in conj_ids_ : a.start <= id /\ id < a.start + a.n

conj_range_free(conj_ids_, start, n) ==
    /\ start >= 1
    /\ start + n - 1 <= MaxConjId
    /\ \A i \in start..(start + n - 1) : ~conj_id_allocated(conj_ids_, i)

\* The id the allocator tries first for a row (derived from the row's uuid).
conj_id_hint(lflow) == ((2 * lflow - 2) % MaxConjId) + 1

\* The k-th candidate start after the hint, wrapping around.
conj_id_probe(lflow, k) == ((conj_id_hint(lflow) - 1 + k) % MaxConjId) + 1

\* lflow_conj_ids_alloc: [start, conj_ids]; start is 0 when no range is free.
lflow_conj_ids_alloc(conj_ids_, lflow, dp, n) ==
    LET ks == {k \in 0..(MaxConjId - 1) :
                  conj_range_free(conj_ids_, conj_id_probe(lflow, k), n)}
    IN IF n = 0 \/ ks = {} THEN [start |-> 0, conj_ids |-> conj_ids_]
       ELSE LET k == CHOOSE x \in ks : \A y \in ks : x <= y
                s == conj_id_probe(lflow, k)
            IN [start |-> s,
                conj_ids |-> conj_ids_ \cup
                             {[lflow |-> lflow, dp |-> dp, start |-> s, n |-> n]}]

\* lflow_conj_ids_alloc_specified: [ok, conj_ids].
lflow_conj_ids_alloc_specified(conj_ids_, lflow, dp, start, n) ==
    IF conj_range_free(conj_ids_, start, n)
    THEN [ok |-> TRUE,
          conj_ids |-> conj_ids_ \cup
                       {[lflow |-> lflow, dp |-> dp, start |-> start, n |-> n]}]
    ELSE [ok |-> FALSE, conj_ids |-> conj_ids_]

lflow_conj_ids_find(conj_ids_, lflow, dp) ==
    LET as == {a \in conj_ids_ : a.lflow = lflow /\ a.dp = dp}
    IN IF as = {} THEN 0 ELSE (CHOOSE a \in as : TRUE).start

lflow_conj_ids_free(conj_ids_, lflow) == {a \in conj_ids_ : a.lflow # lflow}

\* ------------------------------------------------- translation cache (TC)

\* enum lflow_cache_type and struct lflow_cache_value.
\* dp is not part of the entry: it records the datapath that was being
\* translated when the entry was written.
LCACHE_NONE ==
    [type |-> "NONE", expr |-> <<>>, expr_matches |-> {}, conj_id_ofs |-> 0,
     n_conjs |-> 0, dp |-> 0]

\* struct lflow_cache: the enabled flag and one entry per row.
lflow_cache_new(enabled) == [enabled |-> enabled, entries |-> [r \in Rows |-> LCACHE_NONE]]

lflow_cache_is_enabled(lc) == lc.enabled

lflow_cache_get(lc, lflow) == lc.entries[lflow]

lflow_cache_delete(lc, lflow) == [lc EXCEPT !.entries[lflow] = LCACHE_NONE]

lflow_cache_add_expr(lc, lflow, expr) ==
    IF ~lc.enabled THEN lc
    ELSE [lc EXCEPT !.entries[lflow] =
              [LCACHE_NONE EXCEPT !.type = "EXPR", !.expr = <<expr>>]]

lflow_cache_add_matches(lc, lflow, conj_id_ofs, n_conjs, matches, dp) ==
    IF ~lc.enabled THEN lc
    ELSE [lc EXCEPT !.entries[lflow] =
              [type |-> "MATCHES", expr |-> <<>>, expr_matches |-> matches,
               conj_id_ofs |-> conj_id_ofs, n_conjs |-> n_conjs, dp |-> dp]]

\* ------------------------------------------------------ callbacks (lookups)

\* get_local_datapath: whether the datapath is in the local-datapaths map.
get_local_datapath(local_datapaths, dp) == dp \in local_datapaths

\* Variant of the locality gate that lets every datapath through.
ldp_found_any(in, dp) == TRUE

\* The locality gate of consider_logical_flow__ and of
\* consider_lflow_for_added_as_ips__: whether ldp is not NULL.
ldp_found(in, dp) == get_local_datapath(in.local_datapaths, dp)

\* Variant that resolves the name without recording the row in R.
lookup_port_cb_unrecorded(in, l, lflow, dp, port_name) ==
    IF port_name = "none" THEN [ok |-> TRUE, port |-> 0, lfrr |-> l]
    ELSE IF /\ port_name \in DOMAIN in.port_bindings
            /\ in.port_bindings[port_name].datapath = dp
    THEN [ok |-> TRUE, port |-> in.port_bindings[port_name].tunnel_key, lfrr |-> l]
    ELSE LET mg == {g \in in.mc_groups : g.name = port_name /\ g.datapath = dp}
         IN IF mg # {}
            THEN [ok |-> TRUE, port |-> (CHOOSE g \in mg : TRUE).tunnel_key, lfrr |-> l]
            ELSE [ok |-> FALSE, port |-> 0, lfrr |-> l]

\* lookup_port_cb after the port binding was not found on the datapath and
\* the row was recorded under the multicast-group key.
lookup_mc_group(in, l2, dp, port_name) ==
    LET mg == {g \in in.mc_groups : g.name = port_name /\ g.datapath = dp}
    IN IF mg # {}
       THEN [ok |-> TRUE, port |-> (CHOOSE g \in mg : TRUE).tunnel_key, lfrr |-> l2]
       ELSE [ok |-> FALSE, port |-> 0, lfrr |-> l2]

\* lookup_port_cb after the row was recorded under (PORTBINDING, name).
lookup_port_binding(in, l1, lflow, dp, port_name) ==
    IF /\ port_name \in DOMAIN in.port_bindings
       /\ in.port_bindings[port_name].datapath = dp
    THEN [ok |-> TRUE, port |-> in.port_bindings[port_name].tunnel_key, lfrr |-> l1]
    ELSE lookup_mc_group(
             in, lflow_resource_add(l1, RefKey("MC_GROUP", port_name, dp), lflow, 0),
             dp, port_name)

\* lookup_port_cb: [ok, port, lfrr].
lookup_port_cb(in, l, lflow, dp, port_name) ==
    IF port_name = "none" THEN [ok |-> TRUE, port |-> 0, lfrr |-> l]
    ELSE lookup_port_binding(
             in, lflow_resource_add(l, RefKey("PORTBINDING", port_name, 0), lflow, 0),
             lflow, dp, port_name)

\* Variant that evaluates the condition without recording the row in R.
is_chassis_resident_cb_unrecorded(in, l, lflow, port_name) ==
    [resident |->
         /\ port_name \in DOMAIN in.port_bindings
         /\ IF in.port_bindings[port_name].type # "chassisredirect"
            THEN in.port_bindings[port_name].chassis
            ELSE /\ in.port_bindings[port_name].ha_contains
                 /\ in.port_bindings[port_name].ha_active,
     lfrr |-> l]

\* is_chassis_resident_cb: [resident, lfrr].  The row is recorded under
\* (PORTBINDING, name) before the port is looked up.
is_chassis_resident_cb(in, l, lflow, port_name) ==
    [resident |->
         /\ port_name \in DOMAIN in.port_bindings
         /\ IF in.port_bindings[port_name].type # "chassisredirect"
            THEN in.port_bindings[port_name].chassis
            ELSE /\ in.port_bindings[port_name].ha_contains
                 /\ in.port_bindings[port_name].ha_active,
     lfrr |-> lflow_resource_add(l, RefKey("PORTBINDING", port_name, 0), lflow, 0)]

\* ----------------------------------------------------- expression compiler

\* A parsed match: the address set it names with the set's current content,
\* the port it names, and the number of constant dimensions.
\* resident is the port of an is_chassis_resident condition that is still to
\* be evaluated; false tells that the expression was reduced to false.
Expr(as_name, src, port, sets) ==
    [as_name |-> as_name, src |-> src, port |-> port, sets |-> sets,
     resident |-> "", false |-> FALSE, as_const |-> 0, port_reg |-> "inport"]

\* The condition of the expression replaced by its value.
expr_condition_value(expr, cb) ==
    [expr |-> [expr EXCEPT !.resident = "", !.false = ~cb.resident], lfrr |-> cb.lfrr]

\* expr_evaluate_condition with is_chassis_resident_cb: [expr, lfrr].
expr_evaluate_condition(expr, in, l, lflow) ==
    IF expr.resident = "" THEN [expr |-> expr, lfrr |-> l]
    ELSE expr_condition_value(expr, is_chassis_resident_cb(in, l, lflow, expr.resident))

\* convert_match_to_expr: [ok, expr, pg_addr_set_ref, lfrr].  The address
\* sets the parser met are recorded with the number of times it met them.
convert_match_to_expr(lflow, in, l) ==
    LET row == lflow_table[lflow]
    IN [ok |-> row.match_ok,
        expr |-> [Expr(row.as, IF row.as # "" THEN in.addr_sets[row.as] ELSE {},
                       IF row.pg # "" THEN port_groups[row.pg] ELSE row.port,
                       row.sets) EXCEPT !.resident = row.resident,
                                        !.as_const = row.as_const,
                                        !.port_reg = row.port_reg],
        pg_addr_set_ref |-> row.pg # "" \/ row.as # "",
        lfrr |-> LET add_pg(l1) ==
                         IF row.pg # ""
                         THEN lflow_resource_add(l1, RefKey("PORTGROUP", row.pg, 0),
                                                 lflow, 0)
                         ELSE l1
                 IN add_pg(IF row.as # ""
                           THEN lflow_resource_add(l, RefKey("ADDRSET", row.as, 0),
                                                   lflow, 1)
                           ELSE l)]

\* struct expr_match: a match, its conjunction clauses (ids relative to the
\* row, from 1) and its address-set annotation.
ExprMatch(m, conjs, as_name, as_ip) ==
    [m |-> m, conjs |-> conjs, as_name |-> as_name, as_ip |-> as_ip]

Clause(id, clause) == [id |-> id, clause |-> clause]

\* The matches of an expression, given the result lk of looking up the port
\* it names: [n_conjs, matches, lfrr].  With at most one dimension
\* of two or more values the matches are the cross product; with more, one
\* conjunction is introduced: a clause match per value and dimension, and
\* the match on the conjunction id.  An empty address set makes the match
\* false; a port that cannot be looked up leaves no match.
expr_matches_of(expr, l, lk) ==
    LET d_src == IF expr.as_name = "" THEN {0}
                 ELSE IF expr.as_const # 0 THEN expr.src \cup {expr.as_const}
                 ELSE expr.src
        as_name == IF expr.as_const # 0 THEN "" ELSE expr.as_name
        d_c1 == IF expr.sets >= 1 THEN {1, 2} ELSE {0}
        d_c2 == IF expr.sets >= 2 THEN {1, 2} ELSE {0}
        multi(d) == Cardinality(d) >= 2
        one(d) == IF multi(d) THEN 0 ELSE CHOOSE x \in d : TRUE
        n_multi == Cardinality({i \in 1..3 : multi(<<d_src, d_c1, d_c2>>[i])})
        an(s) == IF as_name # "" THEN s ELSE 0
        mt(s, a, b, c) == IF expr.port_reg = "outport"
                          THEN [Match(s, a, b, 0, c) EXCEPT !.outport = lk.port]
                          ELSE Match(s, a, b, lk.port, c)
    IN IF expr.false \/ d_src = {} THEN [n_conjs |-> 0, matches |-> {}, lfrr |-> l]
       ELSE IF ~lk.ok THEN [n_conjs |-> 0, matches |-> {}, lfrr |-> lk.lfrr]
       ELSE IF n_multi <= 1
       THEN [n_conjs |-> 0,
             matches |-> {ExprMatch(mt(x[1], x[2], x[3], 0), {},
                                    as_name, an(x[1])) :
                              x \in d_src \X d_c1 \X d_c2},
             lfrr |-> lk.lfrr]
       ELSE [n_conjs |-> 1,
             matches |->
                 (IF multi(d_src)
                  THEN {ExprMatch(mt(s, one(d_c1), one(d_c2), 0),
                                  {Clause(1, 0)}, as_name, an(s)) : s \in d_src}
                  ELSE {})
                 \cup (IF multi(d_c1)
                       THEN {ExprMatch(mt(one(d_src), a, one(d_c2), 0),
                                       {Clause(1, 1)}, "", 0) : a \in d_c1}
                       ELSE {})
                 \cup (IF multi(d_c2)
                       THEN {ExprMatch(mt(one(d_src), one(d_c1), b, 0),
                                       {Clause(1, 2)}, "", 0) : b \in d_c2}
                       ELSE {})
                 \cup {ExprMatch(mt(one(d_src), one(d_c1), one(d_c2), 1),
                                 {}, "", 0)},
             lfrr |-> lk.lfrr]

\* expr_to_matches: [n_conjs, matches, lfrr].
expr_to_matches(expr, in, l, lflow, dp) ==
    expr_matches_of(expr, l,
                    IF expr.false \/ expr.port = ""
                    THEN [ok |-> TRUE, port |-> 0, lfrr |-> l]
                    ELSE lookup_port_cb(in, l, lflow, dp, expr.port))

\* expr_matches_prepare: shift the conjunction ids by conj_id_ofs.
expr_matches_prepare(matches, conj_id_ofs) ==
    {[x EXCEPT !.conjs = {Clause(c.id + conj_id_ofs, c.clause) : c \in @},
               !.m.conj_id = IF @ = 0 THEN 0 ELSE @ + conj_id_ofs] : x \in matches}

\* ----------------------------------------------------------- row compiler

\* The HMAP_FOR_EACH loop of add_matches_to_flow_table over the matches
\* that pass the local-port filter.
RECURSIVE add_matches_loop(_, _, _, _, _)
add_matches_loop(ft, matches, lflow, dp, act) ==
    IF matches = {} THEN ft
    ELSE LET x == CHOOSE y \in matches : TRUE
             ft1 == IF x.conjs = {}
                    THEN ofctrl_add_flow(
                             ft, Flow(dp, x.m, {}, lflow, act, x.as_name, x.as_ip), lflow)
                    ELSE ofctrl_add_or_append_flow(
                             ft, Flow(dp, x.m, x.conjs, lflow, NoAct, x.as_name, x.as_ip),
                             lflow)
         IN add_matches_loop(ft1, matches \ {x}, lflow, dp, act)

\* Variant that reads the logical inport in either pipeline.
match_port_not_local_inport(x, ingress, dp, in) ==
    /\ is_switch(dp)
    /\ x.m.inport # 0
    /\ <<dp, x.m.inport>> \notin in.related_lport_ids

\* Whether a match is skipped because it pins a port that is not local.
match_port_not_local(x, ingress, dp, in) ==
    LET port_id == IF ingress THEN x.m.inport ELSE x.m.outport
    IN /\ is_switch(dp)
       /\ port_id # 0
       /\ <<dp, port_id>> \notin in.related_lport_ids

\* add_matches_to_flow_table after ovnacts_encode (enc: the result of the
\* encoder's port lookup): every match is emitted with the datapath as
\* metadata.
add_matches_encoded(lflow, dp, matches, in, out, enc) ==
    [out EXCEPT !.lfrr = enc.lfrr,
                !.flow_table =
                    add_matches_loop(@, {x \in matches :
                                            ~match_port_not_local(
                                                 x, lflow_table[lflow].pipeline = "ingress",
                                                 dp, in)},
                                     lflow, dp, Act(lflow, enc.port))]

\* add_matches_to_flow_table: the actions are encoded (looking up the ports
\* they name), then the matches are emitted.
add_matches_to_flow_table(lflow, dp, matches, in, out) ==
    add_matches_encoded(
        lflow, dp, matches, in, out,
        IF lflow_table[lflow].act_port = ""
        THEN [ok |-> TRUE, port |-> 0, lfrr |-> out.lfrr]
        ELSE lookup_port_cb(in, out.lfrr, lflow, dp, lflow_table[lflow].act_port))

\* Variant that never caches matches: the expression is cached instead.
cache_matches_never(cached_expr, l, lflow) == FALSE

\* Variant that caches the matches of any row without address sets.
cache_matches_any(cached_expr, l, lflow) == cached_expr

\* The condition under which the matches are cached: the expression was
\* saved for caching and R has no entry for the row.
cache_matches_ok(cached_expr, l, lflow) ==
    cached_expr /\ ~lflow_ref_lookup(l.lflow_ref_table, lflow)

\* consider_logical_flow__, the cache write that follows the emission
\* (out4: the state after add_matches_to_flow_table; cached_expr: the saved
\* clone of the expression, <<>> when none was saved).
consider_emitted(lflow, dp, from_text, cached_expr, n_conjs, start_conj_id, matches, out4) ==
    IF ~from_text \/ ~lflow_cache_is_enabled(out4.lflow_cache) THEN out4
    ELSE IF cache_matches_ok(cached_expr # <<>>, out4.lfrr, lflow)
    THEN [out4 EXCEPT !.lflow_cache =
              lflow_cache_add_matches(@, lflow, start_conj_id, n_conjs, matches, dp)]
    ELSE IF cached_expr # <<>>
    THEN [out4 EXCEPT !.lflow_cache = lflow_cache_add_expr(@, lflow, cached_expr[1])]
    ELSE out4

\* consider_logical_flow__ from the prepared matches on.
consider_prepared(lflow, dp, in, out3, from_text, cached_expr, n_conjs, start_conj_id, matches) ==
    consider_emitted(lflow, dp, from_text, cached_expr, n_conjs, start_conj_id, matches,
                     add_matches_to_flow_table(lflow, dp, matches, in, out3))

\* Variant that goes on when no range of conjunction ids is free.
consider_allocated_unchecked(lflow, dp, in, out2, from_text, cached_expr, em, al) ==
    consider_prepared(
        lflow, dp, in, [out2 EXCEPT !.conj_ids = al.conj_ids], from_text,
        cached_expr, em.n_conjs, al.start,
        IF em.n_conjs > 0 THEN expr_matches_prepare(em.matches, al.start - 1)
        ELSE em.matches)

\* consider_logical_flow__ after lflow_conj_ids_alloc (al): without a free
\* range the row is skipped.
consider_allocated(lflow, dp, in, out2, from_text, cached_expr, em, al) ==
    IF em.n_conjs > 0 /\ al.start = 0 THEN [out2 EXCEPT !.conj_ids = al.conj_ids]
    ELSE consider_prepared(
             lflow, dp, in, [out2 EXCEPT !.conj_ids = al.conj_ids], from_text,
             cached_expr, em.n_conjs, al.start,
             IF em.n_conjs > 0 THEN expr_matches_prepare(em.matches, al.start - 1)
             ELSE em.matches)

\* consider_logical_flow__ after expr_to_matches (em): without matches
\* nothing is emitted.
consider_matches(lflow, dp, in, out1, from_text, cached_expr, em) ==
    IF em.matches = {} THEN [out1 EXCEPT !.lfrr = em.lfrr]
    ELSE consider_allocated(
             lflow, dp, in, [out1 EXCEPT !.lfrr = em.lfrr], from_text, cached_expr, em,
             lflow_conj_ids_alloc(out1.conj_ids, lflow, dp, em.n_conjs))

\* consider_logical_flow__ after expr_evaluate_condition (ev).
consider_evaluated(lflow, dp, in, out1, from_text, cached_expr, ev) ==
    consider_matches(lflow, dp, in, out1, from_text, cached_expr,
                     expr_to_matches(ev.expr, in, ev.lfrr, lflow, dp))

\* Variant that saves the expression of any row that is not cached.
cached_expr_saved_any(from_text, lc, pg_addr_set_ref) ==
    from_text /\ lflow_cache_is_enabled(lc)

\* Whether consider_logical_flow__ saves a clone of the expression to cache
\* it later: the row was not cached, caching is enabled and the match does
\* not refer to address sets or port groups.
cached_expr_saved(from_text, lc, pg_addr_set_ref) ==
    from_text /\ lflow_cache_is_enabled(lc) /\ ~pg_addr_set_ref

\* Variant that saves the expression for caching after its conditions were
\* evaluated.
consider_parsed_clone_late(lflow, dp, in, out, from_text, conv) ==
    IF from_text /\ ~conv.ok THEN [out EXCEPT !.lfrr = conv.lfrr]
    ELSE consider_evaluated(
             lflow, dp, in, IF from_text THEN [out EXCEPT !.lfrr = conv.lfrr] ELSE out,
             from_text,
             IF cached_expr_saved(from_text, out.lflow_cache, conv.pg_addr_set_ref)
             THEN <<expr_evaluate_condition(conv.expr, in, conv.lfrr, lflow).expr>>
             ELSE <<>>,
             expr_evaluate_condition(conv.expr, in,
                                     IF from_text THEN conv.lfrr ELSE out.lfrr, lflow))

\* consider_logical_flow__ once it has the expression (conv), parsed from
\* the match (from_text) or cloned from the cache: the expression is saved
\* for caching, then its conditions are evaluated.
consider_parsed(lflow, dp, in, out, from_text, conv) ==
    IF from_text /\ ~conv.ok THEN [out EXCEPT !.lfrr = conv.lfrr]
    ELSE consider_evaluated(
             lflow, dp, in, IF from_text THEN [out EXCEPT !.lfrr = conv.lfrr] ELSE out,
             from_text,
             IF cached_expr_saved(from_text, out.lflow_cache, conv.pg_addr_set_ref)
             THEN <<conv.expr>> ELSE <<>>,
             expr_evaluate_condition(conv.expr, in,
                                     IF from_text THEN conv.lfrr ELSE out.lfrr, lflow))

\* consider_logical_flow__ after the cache probe, for a row that is not
\* served from cached matches (the type of lcv is NONE or EXPR).
consider_uncached(lflow, dp, in, out, lcv) ==
    consider_parsed(lflow, dp, in, out, lcv.type = "NONE",
                    IF lcv.type = "NONE" THEN convert_match_to_expr(lflow, in, out.lfrr)
                    ELSE [ok |-> TRUE, expr |-> lcv.expr[1], pg_addr_set_ref |-> FALSE,
                          lfrr |-> out.lfrr])

\* Variant that serves cached matches without reserving their slice.
cached_conj_ids_unreserved(conj_ids_, lflow, dp, lcv) ==
    [ok |-> TRUE, conj_ids |-> conj_ids_]

\* Variant that records the cached slice for (row, datapath) whether or not
\* it is free.
cached_conj_ids_reserve_unchecked(conj_ids_, lflow, dp, lcv) ==
    [ok |-> TRUE,
     conj_ids |-> conj_ids_ \cup {[lflow |-> lflow, dp |-> dp,
                                   start |-> lcv.conj_id_ofs, n |-> lcv.n_conjs]}]

\* The cache probe of consider_logical_flow__: the slice recorded in a
\* MATCHES entry is reserved for (row, datapath) before the entry is used.
cached_conj_ids_reserve(conj_ids_, lflow, dp, lcv) ==
    lflow_conj_ids_alloc_specified(conj_ids_, lflow, dp,
                                   lcv.conj_id_ofs, lcv.n_conjs)

\* Variant that emits the cached matches whether or not their slice could
\* be reserved.
consider_probed_stale(lflow, dp, in, out, lcv, probe, sp) ==
    IF lcv.type = "MATCHES"
    THEN add_matches_to_flow_table(
             lflow, dp, lcv.expr_matches, in,
             IF probe THEN [out EXCEPT !.conj_ids = sp.conj_ids] ELSE out)
    ELSE consider_uncached(lflow, dp, in, out, lcv)

\* consider_logical_flow__ after the cache probe (probe: the entry holds
\* matches with conjunctions; sp: the result of reserving their slice).  A
\* MATCHES entry whose slice cannot be reserved is deleted and the row is
\* translated from its text.
consider_probed(lflow, dp, in, out, lcv, probe, sp) ==
    IF lcv.type = "MATCHES" /\ ~(probe /\ ~sp.ok)
    THEN add_matches_to_flow_table(
             lflow, dp, lcv.expr_matches, in,
             IF probe THEN [out EXCEPT !.conj_ids = sp.conj_ids] ELSE out)
    ELSE consider_uncached(
             lflow, dp, in,
             IF probe /\ ~sp.ok
             THEN [out EXCEPT !.lflow_cache = lflow_cache_delete(@, lflow)] ELSE out,
             IF probe /\ ~sp.ok THEN LCACHE_NONE ELSE lcv)

\* consider_logical_flow__ from the cache lookup on (lcv: the row's entry).
consider_cached(lflow, dp, in, out, lcv) ==
    consider_probed(lflow, dp, in, out, lcv,
                    lcv.type = "MATCHES" /\ lcv.n_conjs > 0,
                    cached_conj_ids_reserve(out.conj_ids, lflow, dp, lcv))

\* Variant that lets a row through as soon as its port has a binding.
io_port_bound(io_port, dp, in) == io_port \in DOMAIN in.port_bindings

\* The gate of consider_logical_flow__ on the row's in_out_port tag: the
\* port has a binding, found by its name alone, and the key of the row's
\* datapath and the port is among the related ports.
io_port_local(io_port, dp, in) ==
    /\ io_port \in DOMAIN in.port_bindings
    /\ <<dp, in.port_bindings[io_port].tunnel_key>> \in in.related_lport_ids

\* consider_logical_flow__: translate one row for one datapath.  The
\* reference to the in_out_port is recorded before the port is looked up.
consider_logical_flow__(lflow, dp, in, out) ==
    LET io_port == lflow_table[lflow].io_port
        gated(out1) ==
            IF io_port # "" /\ ~io_port_local(io_port, dp, in) THEN out1
            ELSE IF ~lflow_table[lflow].actions_ok THEN out1
            ELSE consider_cached(lflow, dp, in, out1,
                                 lflow_cache_get(out1.lflow_cache, lflow))
    IN IF ~ldp_found(in, dp) THEN out
       ELSE gated(IF io_port = "" THEN out
                  ELSE [out EXCEPT !.lfrr = lflow_resource_add(
                                                @, RefKey("PORTBINDING", io_port, 0),
                                                lflow, 0)])

\* Variant that translates a row for the first of its datapaths only.
consider_dps_first(lflow, dps, in, out) ==
    IF dps = <<>> THEN out ELSE consider_logical_flow__(lflow, Head(dps), in, out)

\* The datapaths of a row in turn: its logical_datapath, or the members of
\* its logical_dp_group.
RECURSIVE consider_dps(_, _, _, _)
consider_dps(lflow, dps, in, out) ==
    IF dps = <<>> THEN out
    ELSE consider_dps(lflow, Tail(dps), in,
                      consider_logical_flow__(lflow, Head(dps), in, out))

\* consider_logical_flow: translate one row for its datapath, or for every
\* datapath of its group; outside a recompute the row is marked processed.
\* ovs_assert(!lflows_processed_find(..)) ends the program when the row is
\* already marked: assert_failed records it and nothing is translated.
consider_logical_flow(lflow, is_recompute, in, out) ==
    IF ~is_recompute /\ lflow \in out.lflows_processed
    THEN [out EXCEPT !.assert_failed = TRUE]
    ELSE consider_dps(lflow, lflow_table[lflow].dps, in,
                      IF is_recompute THEN out
                      ELSE [out EXCEPT !.lflows_processed = @ \cup {lflow}])

\* ------------------------------------------------------------ delta engine

\* add_logical_flows: every row of the table, as a recompute.
RECURSIVE add_logical_flows_loop(_, _, _)
add_logical_flows_loop(lflows, in, out) ==
    IF lflows = <<>> THEN out
    ELSE add_logical_flows_loop(Tail(lflows), in,
                                consider_logical_flow(Head(lflows), TRUE, in, out))

add_logical_flows(in, out) == add_logical_flows_loop(SetToSeq(in.lflows), in, out)

lflow_run(in, out) == add_logical_flows(in, out)

\* Variant that leaves a flood-removed row in lflows_processed.
reprocess_node_kept(lflow, in, out1) ==
    IF lflow \notin in.lflows THEN out1
    ELSE consider_logical_flow(lflow, FALSE, in, out1)

\* One flood-removed row after its references and conjunction ids were
\* released: a row that is no longer in the table is skipped, any other is
\* translated again.
reprocess_node(lflow, in, out1) ==
    IF lflow \notin in.lflows THEN out1
    ELSE consider_logical_flow(lflow, FALSE, in,
                               [out1 EXCEPT !.lflows_processed = @ \ {lflow}])

\* Variant that keeps the conjunction ids of the row.
release_node_refs_only(lflow, out) ==
    [out EXCEPT !.lfrr = lflow_resource_destroy_lflow(@, lflow)]

\* The references and the conjunction ids of a flood-removed row are
\* released before the row is looked up in the table.
release_node(lflow, out) ==
    [out EXCEPT !.lfrr = lflow_resource_destroy_lflow(@, lflow),
                !.conj_ids = lflow_conj_ids_free(@, lflow)]

\* The HMAP_FOR_EACH loop over the flood-removed rows that closes
\* lflow_handle_changed_flows and lflow_handle_changed_ref.
RECURSIVE reprocess_nodes(_, _, _)
reprocess_nodes(nodes, in, out) ==
    IF nodes = <<>> THEN out
    ELSE reprocess_nodes(Tail(nodes), in,
                         reprocess_node(Head(nodes), in,
                                        release_node(Head(nodes), out)))

\* The rows of a tracked set whose cache entry lflow_handle_changed_flows
\* deletes: those that are not new, when the cache is enabled.
RECURSIVE cache_delete_all(_, _)
cache_delete_all(lc, lflows) ==
    IF lflows = {} THEN lc
    ELSE LET r == CHOOSE x \in lflows : TRUE
         IN cache_delete_all(lflow_cache_delete(lc, r), lflows \ {r})

\* lflow_handle_changed_flows, for the tracked rows (tracked_new: the
\* tracked rows that are new).  Always returns true.  First the loop over
\* the tracked rows and ofctrl_flood_remove_flows, then the loop over the
\* flood-removed rows.
changed_flows_flood_removed(tracked, tracked_new, out) ==
    LET todo == tracked \ out.lflows_processed
    IN [out EXCEPT
            !.lflow_cache =
                IF lflow_cache_is_enabled(@)
                THEN cache_delete_all(@, todo \ tracked_new) ELSE @,
            !.flow_table = ofctrl_flood_remove_flows(@, todo)]

lflow_handle_changed_flows(tracked, tracked_new, in, out) ==
    LET todo == tracked \ out.lflows_processed
        nodes == flood_remove_nodes(out.flow_table, todo)
    IN reprocess_nodes(SetToSeq(nodes), in,
                       changed_flows_flood_removed(tracked, tracked_new, out))

\* Variant that takes every row of the bucket.
lflows_todo_all(lflow_uuids, lflows_processed) == lflow_uuids

\* The lflows_todo list of lflow_handle_changed_ref: the rows of the bucket
\* that were not processed in this iteration.
lflows_todo(lflow_uuids, lflows_processed) == lflow_uuids \ lflows_processed

\* Variant that reports unhandled when a row it translated again emitted
\* nothing.
lflow_handle_changed_ref_strict(key, in, out) ==
    IF ~ref_lflow_lookup(out.lfrr.ref_lflow_table, key)
    THEN [ret |-> TRUE, changed |-> FALSE, out |-> out]
    ELSE
    LET todo == lflows_todo(DOMAIN out.lfrr.ref_lflow_table[key], out.lflows_processed)
        nodes == flood_remove_nodes(out.flow_table, todo)
        out1 == [out EXCEPT !.flow_table = ofctrl_flood_remove_flows(@, todo)]
    IN IF todo = {} THEN [ret |-> TRUE, changed |-> FALSE, out |-> out]
       ELSE LET o == reprocess_nodes(SetToSeq(nodes), in, out1)
            IN [ret |-> \A r \in nodes \cap in.lflows :
                            \E f \in o.flow_table : r \in f.owners,
                changed |-> TRUE, out |-> o]

\* lflow_handle_changed_ref: [ret, changed, out].
lflow_handle_changed_ref(key, in, out) ==
    IF ~ref_lflow_lookup(out.lfrr.ref_lflow_table, key)
    THEN [ret |-> TRUE, changed |-> FALSE, out |-> out]
    ELSE
    LET todo == lflows_todo(DOMAIN out.lfrr.ref_lflow_table[key], out.lflows_processed)
        nodes == flood_remove_nodes(out.flow_table, todo)
        out1 == [out EXCEPT !.flow_table = ofctrl_flood_remove_flows(@, todo)]
    IN IF todo = {} THEN [ret |-> TRUE, changed |-> FALSE, out |-> out]
       ELSE [ret |-> TRUE, changed |-> TRUE,
             out |-> reprocess_nodes(SetToSeq(nodes), in, out1)]

\* lflow_handle_flows_for_lport: [ret, changed, out].  The port-security
\* rules it reprograms are owned by the binding and are not part of out.
lflow_handle_flows_for_lport(port_name, in, out) ==
    lflow_handle_changed_ref(RefKey("PORTBINDING", port_name, 0), in, out)

\* lflow_handle_cached_flows: the cache entries of the deleted tracked rows
\* are dropped.
lflow_handle_cached_flows(lc, tracked, in) == cache_delete_all(lc, tracked \ in.lflows)

\* lflow_add_flows_for_datapath: the rows bound to the datapath are
\* translated and marked processed; the rows bound to a group holding the
\* datapath are translated for it without being marked.
RECURSIVE add_flows_for_datapath_loop(_, _, _, _)
add_flows_for_datapath_loop(lflows, dp, in, out) ==
    IF lflows = <<>> THEN out
    ELSE LET lflow == Head(lflows)
             row == lflow_table[lflow]
         IN add_flows_for_datapath_loop(
                Tail(lflows), dp, in,
                IF lflow \in out.lflows_processed THEN out
                ELSE consider_logical_flow__(
                         lflow, dp, in,
                         IF row.dp_group THEN out
                         ELSE [out EXCEPT !.lflows_processed = @ \cup {lflow}]))

lflow_add_flows_for_datapath(dp, in, out) ==
    LET of_dp(g) == {r \in in.lflows : /\ lflow_table[r].dp_group = g
                                      /\ \E i \in DOMAIN lflow_table[r].dps :
                                             lflow_table[r].dps[i] = dp}
    IN add_flows_for_datapath_loop(
           SetToSeq(of_dp(TRUE)), dp, in,
           add_flows_for_datapath_loop(SetToSeq(of_dp(FALSE)), dp, in, out))

\* ------------------------------------------------- address-set fast path

\* Variant whose increment saturates at 255.
dummy_ip_saturating(ip) == IF ip = 255 THEN 255 ELSE ip + 1

\* The dummy address of consider_lflow_for_added_as_ips__: the low byte of
\* the added address, incremented as a uint8_t.
dummy_ip(ip) == (ip + 1) % 256

\* Whether the fast path discards a generated match: it is not annotated
\* with the address set, or it carries the dummy address.
as_match_discarded(x, as_name, has_dummy_ip, dummy) ==
    \/ x.as_name = ""
    \/ x.as_name # as_name
    \/ (has_dummy_ip /\ x.as_ip = dummy)

\* Variant that accepts any number of generated matches.
as_match_count_any(n_matches, as_ref_count, n_values) == TRUE

\* Whether the number of generated matches is the expected one.
as_match_count_ok(n_matches, as_ref_count, n_values) ==
    n_matches = as_ref_count * n_values

\* Variant that takes the row's first conjunction id itself as the offset.
as_conj_id_ofs_from_start(start_conj_id) == start_conj_id

\* The offset the fast path hands to expr_matches_prepare: the ids of the
\* generated matches count from 1, the row's ids from start_conj_id.
as_conj_id_ofs(start_conj_id) == start_conj_id - 1

\* Variant that leaves the fake set bound after the match is parsed.
as_restored_skipped(addr_sets, as_name, real_as) == addr_sets

\* The second shash_replace of consider_lflow_for_added_as_ips__: the name
\* is bound to the real set again.
as_restored(addr_sets, as_name, real_as) ==
    [addr_sets EXCEPT ![as_name] = real_as]

\* consider_lflow_for_added_as_ips__: [handled, out, addr_sets], addr_sets
\* being the address-set map the call leaves behind.  The name is bound to
\* the added addresses alone (replaced), the match is parsed against them
\* (conv), the name is bound to the real set again (in_r), the match is
\* compiled (em), the matches that are not of the address set or carry the
\* dummy address are discarded (kept), and what is left is emitted under the
\* row's conjunction ids.
consider_lflow_for_added_as_ips__(lflow, dp, as_name, as_ref_count, as_diff_added, in, out) ==
    LET has_dummy_ip == Cardinality(as_diff_added) = 1
        dummy == dummy_ip(CHOOSE x \in as_diff_added : TRUE)
        fake_as == IF has_dummy_ip THEN as_diff_added \cup {dummy} ELSE as_diff_added
        real_as == in.addr_sets[as_name]
        replaced == [in.addr_sets EXCEPT ![as_name] = fake_as]
        in_r == [in EXCEPT !.addr_sets = as_restored(replaced, as_name, real_as)]
        emit(out2, n_conjs, kept, start_conj_id) ==
            IF ~as_match_count_ok(Cardinality(kept), as_ref_count,
                                  Cardinality(as_diff_added))
            THEN [handled |-> FALSE, out |-> out2, addr_sets |-> in_r.addr_sets]
            ELSE IF n_conjs > 0 /\ start_conj_id = 0
            THEN [handled |-> FALSE, out |-> out2, addr_sets |-> in_r.addr_sets]
            ELSE [handled |-> TRUE,
                  out |-> add_matches_to_flow_table(
                              lflow, dp,
                              IF n_conjs > 0
                              THEN expr_matches_prepare(kept, as_conj_id_ofs(start_conj_id))
                              ELSE kept,
                              in_r, out2),
                  addr_sets |-> in_r.addr_sets]
        compiled(em) ==
            IF em.matches = {}
            THEN [handled |-> TRUE, out |-> [out EXCEPT !.lfrr = em.lfrr],
                  addr_sets |-> in_r.addr_sets]
            ELSE emit([out EXCEPT !.lfrr = em.lfrr], em.n_conjs,
                      {x \in em.matches :
                           ~as_match_discarded(x, as_name, has_dummy_ip, dummy)},
                      lflow_conj_ids_find(out.conj_ids, lflow, dp))
        evaluated(ev) == compiled(expr_to_matches(ev.expr, in_r, ev.lfrr, lflow, dp))
        parsed(conv) ==
            IF ~conv.ok THEN [handled |-> TRUE, out |-> [out EXCEPT !.lfrr = conv.lfrr],
                              addr_sets |-> in_r.addr_sets]
            ELSE evaluated(expr_evaluate_condition(conv.expr, in_r, conv.lfrr, lflow))
    IN IF ~ldp_found(in, dp)
       THEN [handled |-> TRUE, out |-> out, addr_sets |-> in.addr_sets]
       ELSE IF ~lflow_table[lflow].actions_ok
       THEN [handled |-> TRUE, out |-> out, addr_sets |-> in.addr_sets]
       ELSE parsed(convert_match_to_expr(
                       lflow, [in EXCEPT !.addr_sets = replaced], out.lfrr))

\* consider_lflow_for_added_as_ips: the datapaths of the row in turn, up to
\* the first one that cannot be handled.
RECURSIVE consider_lflow_for_added_as_ips(_, _, _, _, _, _, _)
consider_lflow_for_added_as_ips(lflow, dps, as_name, as_ref_count, as_diff_added, in, out) ==
    LET rest(r) ==
            IF ~r.handled THEN r
            ELSE consider_lflow_for_added_as_ips(
                     lflow, Tail(dps), as_name, as_ref_count, as_diff_added,
                     [in EXCEPT !.addr_sets = r.addr_sets], r.out)
    IN IF dps = <<>> THEN [handled |-> TRUE, out |-> out, addr_sets |-> in.addr_sets]
       ELSE rest(consider_lflow_for_added_as_ips__(
                     lflow, Head(dps), as_name, as_ref_count, as_diff_added, in, out))

\* Variant that also takes the fast path when the number of changed
\* addresses equals the new size.
as_update_can_be_handled_gt(as_name, n_added, n_deleted, in) ==
    LET n_values == Cardinality(in.addr_sets[as_name])
        old_as_size == n_values + n_deleted - n_added
    IN /\ ~(old_as_size <= 1 \/ n_values <= 1)
       /\ ~((n_added + n_deleted) > n_values)

\* as_update_can_be_handled.
as_update_can_be_handled(as_name, n_added, n_deleted, in) ==
    LET n_values == Cardinality(in.addr_sets[as_name])
        old_as_size == n_values + n_deleted - n_added
    IN /\ ~(old_as_size <= 1 \/ n_values <= 1)
       /\ ~((n_added + n_deleted) >= n_values)

\* Variant that gives every unmasked constant the IPv4 exact-match mask.
as_info_from_expr_const_ipv4(as_name, c) ==
    [ok |-> TRUE,
     as_info |-> [name |-> as_name, ip |-> c.value,
                  mask |-> IF c.masked THEN c.mask ELSE "255.255.255.255"]]

\* as_info_from_expr_const: [ok, as_info].  An unmasked constant gets the
\* exact-match mask of its format; a constant that is not an address gives
\* no as_info.
as_info_from_expr_const(as_name, c) ==
    LET info(mask) == [name |-> as_name, ip |-> c.value, mask |-> mask]
    IN IF c.masked THEN [ok |-> TRUE, as_info |-> info(c.mask)]
       ELSE IF c.format = "LEX_F_IPV4"
       THEN [ok |-> TRUE, as_info |-> info("255.255.255.255")]
       ELSE IF c.format = "LEX_F_IPV6"
       THEN [ok |-> TRUE, as_info |-> info("ffff:ffff:ffff:ffff:ffff:ffff:ffff:ffff")]
       ELSE IF c.format = "LEX_F_ETHERNET"
       THEN [ok |-> TRUE, as_info |-> info("ff:ff:ff:ff:ff:ff")]
       ELSE [ok |-> FALSE, as_info |-> info("")]

\* Variant that reports the deleted addresses removed without removing
\* their flows.
remove_deleted_as_ips_kept(ft, lflow, as_name, ips, ref_count, reqs) ==
    [ok |-> TRUE, ft |-> ft, reqs |-> reqs]

\* The loop of lflow_handle_addr_set_update over the deleted addresses of
\* one row: [ok, ft, reqs], reqs being the requests made to the sink so far.
RECURSIVE remove_deleted_as_ips(_, _, _, _, _, _)
remove_deleted_as_ips(ft, lflow, as_name, ips, ref_count, reqs) ==
    LET removed(r, req) ==
            IF ~r.ok THEN [ok |-> FALSE, ft |-> r.ft, reqs |-> Append(reqs, req)]
            ELSE remove_deleted_as_ips(r.ft, lflow, as_name, Tail(ips), ref_count,
                                       Append(reqs, req))
        constant(i) ==
            IF ~i.ok
            THEN remove_deleted_as_ips(ft, lflow, as_name, Tail(ips), ref_count, reqs)
            ELSE removed(ofctrl_remove_flows_for_as_ip(ft, lflow, i.as_info, ref_count),
                         [lflow |-> lflow, as_info |-> i.as_info,
                          ref_count |-> ref_count])
    IN IF ips = <<>> THEN [ok |-> TRUE, ft |-> ft, reqs |-> reqs]
       ELSE constant(as_info_from_expr_const(as_name, expr_constant_of(Head(ips))))

\* The HMAP_FOR_EACH loop of lflow_handle_addr_set_update over the rows
\* that reference the address set: [ret, changed, out, reqs, addr_sets].
RECURSIVE addr_set_update_loop(_, _, _, _, _, _, _, _, _)
addr_set_update_loop(lflows, uuids, as_name, added, deleted, in, out, changed, reqs) ==
    LET lflow == Head(lflows)
        ref_count == uuids[lflow]
        after_add(add, reqs1) ==
            IF ~add.handled
            THEN [ret |-> FALSE, changed |-> TRUE, out |-> add.out, reqs |-> reqs1,
                  addr_sets |-> add.addr_sets]
            ELSE addr_set_update_loop(Tail(lflows), uuids, as_name, added, deleted,
                                      [in EXCEPT !.addr_sets = add.addr_sets],
                                      add.out, TRUE, reqs1)
        after_del(del_ok, out1, reqs1) ==
            IF ~del_ok
            THEN [ret |-> FALSE, changed |-> TRUE, out |-> out1, reqs |-> reqs1,
                  addr_sets |-> in.addr_sets]
            ELSE after_add(IF added = {}
                           THEN [handled |-> TRUE, out |-> out1,
                                 addr_sets |-> in.addr_sets]
                           ELSE consider_lflow_for_added_as_ips(
                                    lflow, lflow_table[lflow].dps, as_name, ref_count,
                                    added, in, out1),
                           reqs1)
        row(del) == after_del(del.ok, [out EXCEPT !.flow_table = del.ft], del.reqs)
    IN IF lflows = <<>>
       THEN [ret |-> TRUE, changed |-> changed, out |-> out, reqs |-> reqs,
             addr_sets |-> in.addr_sets]
       ELSE IF lflow \in out.lflows_processed \/ lflow \notin in.lflows
       THEN addr_set_update_loop(Tail(lflows), uuids, as_name, added, deleted,
                                 in, out, changed, reqs)
       ELSE row(remove_deleted_as_ips(out.flow_table, lflow, as_name,
                                      SetToSeq(deleted), ref_count, reqs))

\* lflow_handle_addr_set_update: [ret, changed, out, reqs, addr_sets].  in
\* holds the address set as it is after the update; reqs are the removals
\* requested from the sink, in order; addr_sets is the address-set map as
\* the call leaves it.
lflow_handle_addr_set_update(as_name, added, deleted, in, out) ==
    LET key == RefKey("ADDRSET", as_name, 0)
    IN IF ~as_update_can_be_handled(as_name, Cardinality(added),
                                    Cardinality(deleted), in)
       THEN [ret |-> FALSE, changed |-> FALSE, out |-> out, reqs |-> <<>>,
             addr_sets |-> in.addr_sets]
       ELSE IF ~ref_lflow_lookup(out.lfrr.ref_lflow_table, key)
       THEN [ret |-> TRUE, changed |-> FALSE, out |-> out, reqs |-> <<>>,
             addr_sets |-> in.addr_sets]
       ELSE addr_set_update_loop(
                SetToSeq(DOMAIN out.lfrr.ref_lflow_table[key]),
                out.lfrr.ref_lflow_table[key], as_name, added, deleted,
                in, out, FALSE, <<>>)

\* -------------------------------------------------------- adjunct emitters

\* The match of an adjunct flow with its table and priority (0, "": the
\* field is not matched).
AdjMatch(table, priority, metadata, port, dl_type, ip, mac, ct, conj_id) ==
    [table |-> table, priority |-> priority, metadata |-> metadata, port |-> port,
     dl_type |-> dl_type, ip |-> ip, mac |-> mac, ct |-> ct, conj_id |-> conj_id]

\* The encoded actions of an adjunct flow.
AdjAct(kind, arg) == [kind |-> kind, arg |-> arg]

\* A desired flow of an adjunct emitter, linked to the row uuid.
AdjFlow(m, conjs, act, uuid) == Flow(0, m, conjs, uuid, act, "", 0)

\* ofctrl_remove_flows: the flows linked to the uuid are removed.
ofctrl_remove_flows(ft, uuid) == {g \in ft : uuid \notin g.owners}

\* id_pool_alloc_id over [1, MaxLbId]: [ok, id, pool]; the lowest free id.
id_pool_alloc_id(pool) ==
    LET free == (1..MaxLbId) \ pool
    IN IF free = {} THEN [ok |-> FALSE, id |-> 0, pool |-> pool]
       ELSE LET id == CHOOSE x \in free : \A y \in free : x <= y
            IN [ok |-> TRUE, id |-> id, pool |-> pool \cup {id}]

\* simap_get: 0 when the name is not in the map.
simap_get(ids, name) == IF name \in DOMAIN ids THEN ids[name] ELSE 0

\* consider_neighbor_flow for the binding b (dynamic or static) of the
\* given uuid: nothing when the port is not bound, its datapath is not
\* local, or the MAC or the IP does not parse (0); else the rule of the
\* ARP/ND-get table and the rule of the ARP/ND-lookup table.
consider_neighbor_flow(uuid, b, priority, in, ft) ==
    LET emit(pb, v6) ==
            ofctrl_add_flow(
                ofctrl_add_flow(
                    ft,
                    AdjFlow(AdjMatch("OFTABLE_MAC_BINDING", priority, pb.datapath,
                                     pb.tunnel_key, "", b.ip, 0, "", 0),
                            {}, AdjAct("eth_dst", b.mac), uuid),
                    uuid),
                AdjFlow(AdjMatch("OFTABLE_MAC_LOOKUP", priority, pb.datapath,
                                 pb.tunnel_key, IF v6 THEN "IPV6" ELSE "ARP",
                                 b.ip, b.mac, "", 0),
                        {}, AdjAct("lookup_mac", 1), uuid),
                uuid)
    IN IF b.logical_port \notin DOMAIN in.port_bindings THEN ft
       ELSE IF ~get_local_datapath(in.local_datapaths,
                                   in.port_bindings[b.logical_port].datapath)
       THEN ft
       ELSE IF b.mac = 0 \/ b.ip = 0 THEN ft
       ELSE emit(in.port_bindings[b.logical_port], b.ip >= 3)

\* add_neighbor_flows: the learnt bindings at priority 100, then the static
\* ones at 150 or 50.
add_neighbor_flows(in, ft) ==
    LET RECURSIVE learnt(_, _)
        learnt(uuids, ft1) ==
            IF uuids = <<>> THEN ft1
            ELSE learnt(Tail(uuids),
                        consider_neighbor_flow(
                            Head(uuids), in.mac_binding_table[Head(uuids)], 100,
                            in, ft1))
        RECURSIVE static(_, _)
        static(uuids, ft1) ==
            IF uuids = <<>> THEN ft1
            ELSE static(Tail(uuids),
                        consider_neighbor_flow(
                            Head(uuids), in.static_mac_binding_table[Head(uuids)],
                            IF in.static_mac_binding_table[Head(uuids)].override_dynamic_mac
                            THEN 150 ELSE 50,
                            in, ft1))
    IN static(SetToSeq(DOMAIN in.static_mac_binding_table),
              learnt(SetToSeq(DOMAIN in.mac_binding_table), ft))

\* consider_lb_hairpin_flows: nothing when no datapath of the load balancer
\* is local; else the hairpin detection rules of each (vip, backend)
\* (add_lb_vip_hairpin_flows), the SNAT rule of each vip
\* (add_lb_ct_snat_hairpin_vip_flow) and, with a hairpin_snat_ip, the
\* datapath clauses and the SNAT rule on the conjunction id
\* (add_lb_ct_snat_hairpin_dp_flows).  The id is the one stored under the
\* load balancer's name.
consider_lb_hairpin_flows(uuid, lb, in, ft, ids) ==
    LET id == simap_get(ids, lb.name)
        add_lb_vip_hairpin_flows(ft1) ==
            LET by_mark == ofctrl_add_flow(
                               ft1,
                               AdjFlow(AdjMatch("OFTABLE_CHK_LB_HAIRPIN", 100, 0, 0, "IP",
                                                lb.backend, 0, "ct_mark", 0),
                                       {}, AdjAct("learn", lb.vip), uuid),
                               uuid)
            IN IF ~in.check_ct_label_for_lb_hairpin THEN by_mark
               ELSE ofctrl_add_flow(
                        by_mark,
                        AdjFlow(AdjMatch("OFTABLE_CHK_LB_HAIRPIN", 100, 0, 0, "IP",
                                         lb.backend, 0, "ct_label", 0),
                                {}, AdjAct("learn", lb.vip), uuid),
                        uuid)
        add_lb_ct_snat_hairpin_vip_flow(ft1) ==
            ofctrl_add_or_append_flow(
                ft1,
                IF lb.hairpin_snat_ip
                THEN AdjFlow(AdjMatch("OFTABLE_CT_SNAT_HAIRPIN", 200, 0, 0, "IP",
                                      lb.vip, 0, "", 0),
                             {Clause(id, 1)}, AdjAct("", 0), uuid)
                ELSE AdjFlow(AdjMatch("OFTABLE_CT_SNAT_HAIRPIN", 100, 0, 0, "IP",
                                      lb.vip, 0, "", 0),
                             {}, AdjAct("ct_snat", lb.vip), uuid),
                uuid)
        RECURSIVE dp_clauses(_, _)
        dp_clauses(dps, ft1) ==
            IF dps = <<>> THEN ft1
            ELSE dp_clauses(
                     Tail(dps),
                     ofctrl_add_or_append_flow(
                         ft1,
                         AdjFlow(AdjMatch("OFTABLE_CT_SNAT_HAIRPIN", 200, Head(dps), 0, "",
                                          0, 0, "", 0),
                                 {Clause(id, 0)}, AdjAct("", 0), uuid),
                         uuid))
        add_lb_ct_snat_hairpin_dp_flows(ft1) ==
            IF ~lb.hairpin_snat_ip THEN ft1
            ELSE ofctrl_add_flow(
                     dp_clauses(lb.datapaths, ft1),
                     AdjFlow(AdjMatch("OFTABLE_CT_SNAT_HAIRPIN", 200, 0, 0, "IP",
                                      0, 0, "", id),
                             {}, AdjAct("ct_snat", 0), uuid),
                     uuid)
    IN IF ~\E i \in DOMAIN lb.datapaths :
               get_local_datapath(in.local_datapaths, lb.datapaths[i])
       THEN ft
       ELSE add_lb_ct_snat_hairpin_dp_flows(
                add_lb_ct_snat_hairpin_vip_flow(add_lb_vip_hairpin_flows(ft)))

\* add_lb_hairpin_flows: a load balancer without an id under its name gets
\* one from the pool; o is [flow_table, hairpin_lb_ids, hairpin_id_pool].
add_lb_hairpin_flows(in, o) ==
    LET with_id(uuid, o1, al) ==
            [o1 EXCEPT !.hairpin_id_pool = al.pool,
                       !.hairpin_lb_ids = PutFn(@, in.lb_table[uuid].name, al.id)]
        one(uuid, o2) ==
            [o2 EXCEPT !.flow_table =
                           consider_lb_hairpin_flows(uuid, in.lb_table[uuid], in, @,
                                                     o2.hairpin_lb_ids)]
        RECURSIVE loop(_, _)
        loop(uuids, o1) ==
            IF uuids = <<>> THEN o1
            ELSE loop(Tail(uuids),
                      one(Head(uuids),
                          IF simap_get(o1.hairpin_lb_ids, in.lb_table[Head(uuids)].name) # 0
                          THEN o1
                          ELSE with_id(Head(uuids), o1,
                                       id_pool_alloc_id(o1.hairpin_id_pool))))
    IN loop(SetToSeq(DOMAIN in.lb_table), o)

\* consider_fdb_flows: the get-rule and the lookup-rule of an FDB row whose
\* datapath is local and whose MAC parses.
consider_fdb_flows(uuid, fdb, in, ft) ==
    IF ~get_local_datapath(in.local_datapaths, fdb.dp_key) THEN ft
    ELSE IF fdb.mac = 0 THEN ft
    ELSE ofctrl_add_flow(
             ofctrl_add_flow(
                 ft,
                 AdjFlow(AdjMatch("OFTABLE_GET_FDB", 100, fdb.dp_key, 0, "", 0, fdb.mac,
                                  "", 0),
                         {}, AdjAct("outport", fdb.port_key), uuid),
                 uuid),
             AdjFlow(AdjMatch("OFTABLE_LOOKUP_FDB", 100, fdb.dp_key, fdb.port_key, "", 0,
                              fdb.mac, "", 0),
                     {}, AdjAct("lookup_fdb", 1), uuid),
             uuid)

add_fdb_flows(in, ft) ==
    LET RECURSIVE loop(_, _)
        loop(uuids, ft1) ==
            IF uuids = <<>> THEN ft1
            ELSE loop(Tail(uuids),
                      consider_fdb_flows(Head(uuids), in.fdb_table[Head(uuids)], in, ft1))
    IN loop(SetToSeq(DOMAIN in.fdb_table), ft)

\* lflow_run on an input without Logical_Flow rows and port-security
\* entries: add_neighbor_flows, add_lb_hairpin_flows, add_fdb_flows.
lflow_run_adjuncts(in, o) ==
    LET fdbs(o1) == [o1 EXCEPT !.flow_table = add_fdb_flows(in, @)]
    IN fdbs(add_lb_hairpin_flows(
                in, [o EXCEPT !.flow_table = add_neighbor_flows(in, @)]))

\* A tracked row: its uuid, its content (the last one, when deleted), and
\* whether it is deleted or new.
Tracked(uuid, row, deleted, new) ==
    [uuid |-> uuid, row |-> row, deleted |-> deleted, new |-> new]

\* lflow_handle_changed_mac_bindings: the flows of the deleted and of the
\* updated bindings are removed, deleted ones first; the new and the
\* updated ones are emitted.
lflow_handle_changed_mac_bindings(tracked, in, ft) ==
    LET RECURSIVE deleted(_, _)
        deleted(ts, ft1) ==
            IF ts = <<>> THEN ft1
            ELSE deleted(Tail(ts),
                         IF Head(ts).deleted THEN ofctrl_remove_flows(ft1, Head(ts).uuid)
                         ELSE ft1)
        RECURSIVE present(_, _)
        present(ts, ft1) ==
            IF ts = <<>> THEN ft1
            ELSE present(Tail(ts),
                         IF Head(ts).deleted THEN ft1
                         ELSE consider_neighbor_flow(
                                  Head(ts).uuid, Head(ts).row, 100, in,
                                  IF ~Head(ts).new
                                  THEN ofctrl_remove_flows(ft1, Head(ts).uuid)
                                  ELSE ft1))
    IN present(tracked, deleted(tracked, ft))

\* lflow_handle_changed_static_mac_bindings: one pass over the tracked rows.
lflow_handle_changed_static_mac_bindings(tracked, in, ft) ==
    LET RECURSIVE loop(_, _)
        loop(ts, ft1) ==
            IF ts = <<>> THEN ft1
            ELSE loop(Tail(ts),
                      IF Head(ts).deleted THEN ofctrl_remove_flows(ft1, Head(ts).uuid)
                      ELSE consider_neighbor_flow(
                               Head(ts).uuid, Head(ts).row,
                               IF Head(ts).row.override_dynamic_mac THEN 150 ELSE 50, in,
                               IF ~Head(ts).new
                               THEN ofctrl_remove_flows(ft1, Head(ts).uuid)
                               ELSE ft1))
    IN loop(tracked, ft)

\* lflow_handle_changed_fdbs.
lflow_handle_changed_fdbs(tracked, in, ft) ==
    LET RECURSIVE deleted(_, _)
        deleted(ts, ft1) ==
            IF ts = <<>> THEN ft1
            ELSE deleted(Tail(ts),
                         IF Head(ts).deleted THEN ofctrl_remove_flows(ft1, Head(ts).uuid)
                         ELSE ft1)
        RECURSIVE present(_, _)
        present(ts, ft1) ==
            IF ts = <<>> THEN ft1
            ELSE present(Tail(ts),
                         IF Head(ts).deleted THEN ft1
                         ELSE consider_fdb_flows(
                                  Head(ts).uuid, Head(ts).row, in,
                                  IF ~Head(ts).new
                                  THEN ofctrl_remove_flows(ft1, Head(ts).uuid)
                                  ELSE ft1))
    IN present(tracked, deleted(tracked, ft))

\* lflow_handle_changed_lbs: for a deleted load balancer the flows are
\* removed, the id stored under its name is freed and the name is dropped
\* from the map; a new one gets an id from the pool, stored under its name;
\* an updated one has its flows removed; the new and the updated ones are
\* emitted.
lflow_handle_changed_lbs(tracked, in, o) ==
    LET drop(t, o1) ==
            [flow_table |-> ofctrl_remove_flows(o1.flow_table, t.uuid),
             hairpin_id_pool |->
                 o1.hairpin_id_pool \ {simap_get(o1.hairpin_lb_ids, t.row.name)},
             hairpin_lb_ids |-> DelFn(o1.hairpin_lb_ids, t.row.name)]
        RECURSIVE deleted(_, _)
        deleted(ts, o1) ==
            IF ts = <<>> THEN o1
            ELSE deleted(Tail(ts), IF Head(ts).deleted THEN drop(Head(ts), o1) ELSE o1)
        with_id(t, o1, al) ==
            [o1 EXCEPT !.hairpin_id_pool = al.pool,
                       !.hairpin_lb_ids = PutFn(@, t.row.name, al.id)]
        emit(t, o2) ==
            [o2 EXCEPT !.flow_table =
                           consider_lb_hairpin_flows(t.uuid, t.row, in, @,
                                                     o2.hairpin_lb_ids)]
        RECURSIVE present(_, _)
        present(ts, o1) ==
            IF ts = <<>> THEN o1
            ELSE present(
                     Tail(ts),
                     IF Head(ts).deleted THEN o1
                     ELSE emit(Head(ts),
                               IF ~Head(ts).new
                               THEN [o1 EXCEPT !.flow_table =
                                                   ofctrl_remove_flows(@, Head(ts).uuid)]
                               ELSE with_id(Head(ts), o1,
                                            id_pool_alloc_id(o1.hairpin_id_pool))))
    IN present(tracked, deleted(tracked, o))

\* The part of lflow_add_flows_for_datapath that follows the Logical_Flow
\* rows: the FDB entries, the MAC bindings and the static MAC bindings of
\* the datapath, then the load balancers dp_lbs of the datapath, each
\* emitted with the id stored under its name; o is [flow_table,
\* hairpin_lb_ids, hairpin_id_pool].  No id is allocated here.
lflow_add_flows_for_datapath_adjuncts(dp, dp_lbs, in, o) ==
    LET of_dp(table) ==
            {u \in DOMAIN table :
                 /\ table[u].logical_port \in DOMAIN in.port_bindings
                 /\ in.port_bindings[table[u].logical_port].datapath = dp}
        RECURSIVE fdbs(_, _)
        fdbs(uuids, ft) ==
            IF uuids = <<>> THEN ft
            ELSE fdbs(Tail(uuids),
                      consider_fdb_flows(Head(uuids), in.fdb_table[Head(uuids)], in, ft))
        RECURSIVE learnt(_, _)
        learnt(uuids, ft) ==
            IF uuids = <<>> THEN ft
            ELSE learnt(Tail(uuids),
                        consider_neighbor_flow(
                            Head(uuids), in.mac_binding_table[Head(uuids)], 100, in, ft))
        RECURSIVE static(_, _)
        static(uuids, ft) ==
            IF uuids = <<>> THEN ft
            ELSE static(Tail(uuids),
                        consider_neighbor_flow(
                            Head(uuids), in.static_mac_binding_table[Head(uuids)],
                            IF in.static_mac_binding_table[Head(uuids)].override_dynamic_mac
                            THEN 150 ELSE 50,
                            in, ft))
        RECURSIVE lbs(_, _)
        lbs(uuids, ft) ==
            IF uuids = <<>> THEN ft
            ELSE lbs(Tail(uuids),
                     consider_lb_hairpin_flows(Head(uuids), in.lb_table[Head(uuids)], in,
                                               ft, o.hairpin_lb_ids))
    IN [o EXCEPT !.flow_table =
            lbs(dp_lbs,
                static(SetToSeq(of_dp(in.static_mac_binding_table)),
                       learnt(SetToSeq(of_dp(in.mac_binding_table)),
                              fdbs(SetToSeq({u \in DOMAIN in.fdb_table :
                                                 in.fdb_table[u].dp_key = dp}),
                                   @))))]

\* A port-security rule of the port binding pb: the match of
\* reset_match_for_port_sec_flows (datapath key and port key; the table
\* tells whether the key is the inport or the outport) with a frame type, an
\* IP address, a MAC and the remaining fields as a word.
PortSecFlow(table, priority, pb, dl_type, ip, mac, rest, act) ==
    AdjFlow(AdjMatch(table, priority, pb.datapath, pb.tunnel_key, dl_type, ip, mac,
                     rest, 0),
            {}, act, pb.uuid)

port_sec_deny == AdjAct("port_sec_failed", 1)

port_sec_allow == AdjAct("port_sec_failed", 0)

port_sec_adv_nd_check == AdjAct("resubmit", 0)

\* extract_lsp_addresses on a port_security entry [ea, ip4]: the entry has
\* an Ethernet address (0: none) and at most one IPv4 host address (0:
\* none).
extract_lsp_addresses(entry) == entry.ea # 0

\* build_in_port_sec_default_flows.
build_in_port_sec_default_flows(pb) ==
    {PortSecFlow("OFTABLE_CHK_IN_PORT_SEC", 80, pb, "", 0, 0, "", port_sec_deny),
     PortSecFlow("OFTABLE_CHK_IN_PORT_SEC", 95, pb, "ARP", 0, 0, "",
                 port_sec_adv_nd_check),
     PortSecFlow("OFTABLE_CHK_IN_PORT_SEC_ND", 80, pb, "ARP", 0, 0, "", port_sec_deny),
     PortSecFlow("OFTABLE_CHK_IN_PORT_SEC_ND", 80, pb, "IPV6", 0, 0, "icmp6_136",
                 port_sec_deny),
     PortSecFlow("OFTABLE_CHK_IN_PORT_SEC_ND", 80, pb, "IPV6", 0, 0, "icmp6_135",
                 port_sec_allow)}

\* The ingress rules of one port_security entry without IPv6 addresses:
\* build_in_port_sec_no_ip_flows, build_in_port_sec_ip4_flows,
\* build_in_port_sec_arp_flows and build_in_port_sec_nd_flows
\* (build_in_port_sec_ip6_flows adds nothing).
build_in_port_sec_flows(pb, a) ==
    (IF a.ip4 = 0
     THEN {PortSecFlow("OFTABLE_CHK_IN_PORT_SEC", 90, pb, "", 0, a.ea, "",
                       port_sec_adv_nd_check),
           PortSecFlow("OFTABLE_CHK_IN_PORT_SEC_ND", 90, pb, "ARP", 0, a.ea, "arp_sha",
                       port_sec_allow)}
     ELSE {PortSecFlow("OFTABLE_CHK_IN_PORT_SEC", 90, pb, "IP", a.ip4, a.ea, "",
                       port_sec_allow),
           PortSecFlow("OFTABLE_CHK_IN_PORT_SEC", 90, pb, "IP", 0, a.ea, "dhcp",
                       port_sec_allow),
           PortSecFlow("OFTABLE_CHK_IN_PORT_SEC_ND", 90, pb, "ARP", a.ip4, a.ea,
                       "arp_sha", port_sec_allow)})
    \cup {PortSecFlow("OFTABLE_CHK_IN_PORT_SEC_ND", 90, pb, "IPV6", 0, 0,
                      "icmp6_135_sll", port_sec_allow),
          PortSecFlow("OFTABLE_CHK_IN_PORT_SEC_ND", 90, pb, "IPV6", 0, a.ea,
                      "icmp6_135_sll", port_sec_allow),
          PortSecFlow("OFTABLE_CHK_IN_PORT_SEC_ND", 90, pb, "IPV6", 0, 0,
                      "icmp6_136_tll", port_sec_allow),
          PortSecFlow("OFTABLE_CHK_IN_PORT_SEC_ND", 90, pb, "IPV6", 0, a.ea,
                      "icmp6_136_tll", port_sec_allow)}

\* The egress rules of one port_security entry without IPv6 addresses:
\* build_out_port_sec_no_ip_flows, build_out_port_sec_ip4_flows and
\* build_out_port_sec_ip6_flows.
build_out_port_sec_flows(pb, a) ==
    {PortSecFlow("OFTABLE_CHK_OUT_PORT_SEC", 85, pb, "", 0, a.ea, "", port_sec_allow)}
    \cup (IF a.ip4 = 0 THEN {}
          ELSE {PortSecFlow("OFTABLE_CHK_OUT_PORT_SEC", 90, pb, "IP", 0, a.ea, "",
                            port_sec_deny),
                PortSecFlow("OFTABLE_CHK_OUT_PORT_SEC", 95, pb, "IP", a.ip4, a.ea, "",
                            port_sec_allow),
                PortSecFlow("OFTABLE_CHK_OUT_PORT_SEC", 95, pb, "IP", 0, a.ea,
                            "broadcast", port_sec_allow),
                PortSecFlow("OFTABLE_CHK_OUT_PORT_SEC", 95, pb, "IP", 0, a.ea,
                            "multicast", port_sec_allow),
                PortSecFlow("OFTABLE_CHK_OUT_PORT_SEC", 90, pb, "IPV6", 0, a.ea, "",
                            port_sec_deny)})

\* consider_port_sec_flows: nothing for a port binding without port_security
\* or without an entry that has an Ethernet address; else the default
\* rules, the rules of each entry and the egress drop rule, all linked to
\* the uuid of the port binding (the rules differ in match or actions, so
\* ofctrl_add_flow adds each).
consider_port_sec_flows(pb, ft) ==
    LET ps_addrs == SelectSeq(pb.port_security, extract_lsp_addresses)
    IN IF pb.port_security = <<>> THEN ft
       ELSE IF ps_addrs = <<>> THEN ft
       ELSE ft \cup build_in_port_sec_default_flows(pb)
               \cup UNION {build_in_port_sec_flows(pb, ps_addrs[i]) :
                               i \in DOMAIN ps_addrs}
               \cup {PortSecFlow("OFTABLE_CHK_OUT_PORT_SEC", 80, pb, "", 0, 0, "",
                                 port_sec_deny)}
               \cup UNION {build_out_port_sec_flows(pb, ps_addrs[i]) :
                               i \in DOMAIN ps_addrs}

\* add_port_sec_flows: the binding lports whose port binding exists and is
\* bound to this chassis (pb.chassis: whether pb->chassis is this chassis).
add_port_sec_flows(in, ft) ==
    LET RECURSIVE loop(_, _)
        loop(names, ft1) ==
            IF names = {} THEN ft1
            ELSE LET name == CHOOSE x \in names : TRUE
                 IN loop(names \ {name},
                         IF \/ name \notin DOMAIN in.port_bindings
                            \/ ~in.port_bindings[name].chassis
                         THEN ft1
                         ELSE consider_port_sec_flows(in.port_bindings[name], ft1))
    IN loop(in.binding_lports, ft)

\* lflow_run with the port-security rules that close it.
lflow_run_port_sec(in, out) ==
    [lflow_run(in, out) EXCEPT !.flow_table = add_port_sec_flows(in, @)]

\* lflow_handle_flows_for_lport with the port-security rules of the port
\* binding: after lflow_handle_changed_ref, the rules linked to the uuid
\* are removed and, for a port binding with port_security that is among
\* the binding lports, emitted again.
lflow_handle_flows_for_lport_port_sec(pb, in, out) ==
    LET h == lflow_handle_flows_for_lport(pb.logical_port, in, out)
        removed == ofctrl_remove_flows(h.out.flow_table, pb.uuid)
    IN IF ~h.ret THEN h
       ELSE [h EXCEPT !.out.flow_table =
                 IF pb.port_security # <<>> /\ pb.logical_port \in in.binding_lports
                 THEN consider_port_sec_flows(pb, removed)
                 ELSE removed]

\* ------------------------------------------------------------ state machine

\* in        struct lflow_ctx_in: the Logical_Flow rows present, the port
\*           bindings (name -> datapath, tunnel key), the multicast groups,
\*           the address sets, the local datapaths, the related local ports
\* out       struct lflow_ctx_out: flow_table, lfrr, conj_ids, lflow_cache,
\*           lflows_processed; assert_failed: whether an ovs_assert of
\*           consider_logical_flow failed
\* catalogue the rows the southbound database may hold in this run
\* cycle     the position in the current engine iteration: the handler
\*           that is still to run ("idle": none), the address set whose
\*           update was not handled (and whether that update was the
\*           first change after a full recompute), the multicast group
\*           whose change is still to be handled, and the rows tracked as
\*           deleted
\* last      the operation that ran last, what it returned and whether it
\*           reported a change; the removals an address-set update
\*           requested from the sink
VARIABLES in, out, catalogue, cycle, last

vars == <<in, out, catalogue, cycle, last>>

\* The row sets a run may draw its rows from: the rows that use the address
\* set, and the rows that look up the port; the cacheable row is in both.
Catalogues == {{1, 2, 3}, {3, 4, 5}}

uses_addr_set(rows, as_name) == \E r \in rows : lflow_table[r].as = as_name

uses_port(rows, name) ==
    \E r \in rows : \/ lflow_table[r].port = name
                    \/ lflow_table[r].pg # "" /\ port_groups[lflow_table[r].pg] = name
                    \/ lflow_table[r].act_port = name
                    \/ lflow_table[r].io_port = name
                    \/ lflow_table[r].resident = name

\* The tunnel key of a port binding and of a multicast group.
PortBinding(dp) ==
    [datapath |-> dp, tunnel_key |-> 1, type |-> "", chassis |-> FALSE,
     ha_contains |-> FALSE, ha_active |-> FALSE]

\* A chassis-redirect binding whose HA-chassis group contains this chassis.
CrPortBinding(dp, active) ==
    [PortBinding(dp) EXCEPT !.type = "chassisredirect", !.ha_contains = TRUE,
                            !.ha_active = active]

\* The bindings a port can be created with on a datapath.
NewPortBindings(name, dp) ==
    IF name \in CrPortNames THEN {CrPortBinding(dp, a) : a \in BOOLEAN}
    ELSE {PortBinding(dp)}

McGroup(name, dp) == [name |-> name, datapath |-> dp, tunnel_key |-> 2]

out_empty(lc) ==
    [flow_table |-> {}, lfrr |-> lfrr_empty, conj_ids |-> {},
     lflow_cache |-> lc, lflows_processed |-> {}, assert_failed |-> FALSE]

\* expr_before: the rows that had a cached expression when a residence
\* change began to be handled.
Last(op, ret, changed) ==
    [op |-> op, ret |-> ret, changed |-> changed, expr_before |-> {},
     as_reqs |-> <<>>]

Idle ==
    [phase |-> "idle", as_name |-> "", tracked |-> {}, after_full |-> FALSE,
     mc_group |-> <<>>]

Init ==
    /\ catalogue \in Catalogues
    /\ \E related \in SUBSET {<<1, 1>>}, as \in {{1, 2}} :
           /\ related # {} => uses_port(catalogue, "p1")
           /\ in = [lflows |-> {}, port_bindings |-> EmptyFn, mc_groups |-> {},
                    addr_sets |-> [n \in AddrSetNames |-> as],
                    local_datapaths |-> {}, related_lport_ids |-> related]
    /\ \E enabled \in BOOLEAN : out = out_empty(lflow_cache_new(enabled))
    /\ cycle = Idle
    /\ last = Last("init", TRUE, FALSE)

\* The engine starts an iteration with an empty processed set.
begin_cycle(o) == [o EXCEPT !.lflows_processed = {}]

\* The rows deleted together with another change: none or one present row.
DeletedWith == {{}} \cup {{r} : r \in in.lflows}

\* What follows a reference handler in the iteration.
after_ref(deleted) ==
    IF deleted = {} THEN Idle
    ELSE [Idle EXCEPT !.phase = "flows", !.tracked = deleted]

\* A full recompute (possibly because a datapath stopped being local): the
\* sink, R, CID and the processed set are emptied, then lflow_run.
RunFull ==
    /\ cycle.phase = "idle"
    /\ \E gone \in {{}} \cup {{dp} : dp \in in.local_datapaths} :
           in' = [in EXCEPT !.local_datapaths = @ \ gone]
    /\ out' = lflow_run(in', out_empty(out.lflow_cache))
    /\ last' = Last("run_full", TRUE, TRUE)
    /\ UNCHANGED <<catalogue, cycle>>

\* A row is added: lflow_handle_changed_flows, lflow_handle_cached_flows.
RowAdd ==
    /\ cycle.phase = "idle"
    /\ \E r \in catalogue \ in.lflows :
           /\ in' = [in EXCEPT !.lflows = @ \cup {r}]
           /\ out' = lflow_handle_changed_flows({r}, {r}, in', begin_cycle(out))
    /\ last' = Last("changed_flows", TRUE, TRUE)
    /\ UNCHANGED <<catalogue, cycle>>

\* A row is deleted: lflow_handle_changed_flows, lflow_handle_cached_flows.
RowDelete ==
    /\ cycle.phase = "idle"
    /\ \E r \in in.lflows :
           /\ in' = [in EXCEPT !.lflows = @ \ {r}]
           /\ LET o == lflow_handle_changed_flows({r}, {}, in', begin_cycle(out))
              IN out' = [o EXCEPT !.lflow_cache = lflow_handle_cached_flows(@, {r}, in')]
    /\ last' = Last("changed_flows", TRUE, TRUE)
    /\ UNCHANGED <<catalogue, cycle>>

\* A port binding is created or deleted (possibly with a row deleted in the
\* same iteration): lflow_handle_changed_port_bindings.
PortBindingChangeOn(dps) ==
    /\ cycle.phase = "idle"
    /\ \E name \in PortNames \cup CrPortNames, deleted \in DeletedWith :
           /\ uses_port(catalogue, name)
           /\ \/ /\ name \in DOMAIN in.port_bindings
                 /\ in' = [in EXCEPT !.port_bindings = DelFn(@, name),
                                     !.lflows = @ \ deleted]
              \/ /\ name \notin DOMAIN in.port_bindings
                 /\ \E dp \in dps : \E pb \in NewPortBindings(name, dp) :
                        in' = [in EXCEPT !.port_bindings = PutFn(@, name, pb),
                                         !.lflows = @ \ deleted]
           /\ \E h \in {lflow_handle_changed_ref(RefKey("PORTBINDING", name, 0),
                                                 in', begin_cycle(out))} :
                  /\ out' = h.out
                  /\ last' = Last("changed_port_bindings", h.ret, h.changed)
           /\ cycle' = after_ref(deleted)
    /\ UNCHANGED catalogue

PortBindingChange == PortBindingChangeOn(Datapaths)

\* A multicast group is created or deleted: lflow_handle_changed_mc_groups.
McGroupChange ==
    /\ cycle.phase = "idle"
    /\ \E name \in PortNames, dp \in Datapaths, deleted \in DeletedWith :
           /\ uses_port(catalogue, name)
           /\ in' = [in EXCEPT !.mc_groups =
                                   IF McGroup(name, dp) \in @
                                   THEN @ \ {McGroup(name, dp)}
                                   ELSE @ \cup {McGroup(name, dp)},
                               !.lflows = @ \ deleted]
           /\ \E h \in {lflow_handle_changed_ref(RefKey("MC_GROUP", name, dp),
                                                 in', begin_cycle(out))} :
                  /\ out' = h.out
                  /\ last' = Last("changed_mc_groups", h.ret, h.changed)
           /\ cycle' = after_ref(deleted)
    /\ UNCHANGED catalogue

\* An address set is updated: lflow_handle_addr_set_update.  When it
\* returns false the engine falls back to lflow_handle_changed_ref.
AddrSetUpdate ==
    /\ cycle.phase = "idle"
    /\ \E name \in AddrSetNames, new \in SUBSET Addrs, deleted \in DeletedWith :
           /\ uses_addr_set(catalogue, name)
           /\ new # in.addr_sets[name]
           /\ \E h \in {lflow_handle_addr_set_update(
                            name, new \ in.addr_sets[name], in.addr_sets[name] \ new,
                            [in EXCEPT !.addr_sets[name] = new, !.lflows = @ \ deleted],
                            begin_cycle(out))} :
                  /\ in' = [in EXCEPT !.addr_sets = h.addr_sets,
                                      !.lflows = @ \ deleted]
                  /\ out' = h.out
                  /\ last' = [Last("addr_set_update", h.ret, h.changed)
                                EXCEPT !.as_reqs = h.reqs]
                  /\ cycle' = IF h.ret THEN after_ref(deleted)
                              ELSE [phase |-> "fallback", as_name |-> name,
                                    tracked |-> deleted,
                                    after_full |-> last.op = "run_full",
                                    mc_group |-> <<>>]
    /\ UNCHANGED catalogue

\* The fallback of an address-set update that was not handled.
FallbackChangedRef ==
    /\ cycle.phase = "fallback"
    /\ \E h \in {lflow_handle_changed_ref(RefKey("ADDRSET", cycle.as_name, 0), in, out)} :
           /\ out' = h.out
           /\ last' = Last("changed_ref", h.ret, h.changed)
    /\ cycle' = after_ref(cycle.tracked)
    /\ UNCHANGED <<in, catalogue>>

\* The rows deleted in this iteration are handled after the references:
\* lflow_handle_changed_flows, lflow_handle_cached_flows.
HandleTrackedFlows ==
    /\ cycle.phase = "flows"
    /\ LET o == lflow_handle_changed_flows(cycle.tracked, {}, in, out)
       IN out' = [o EXCEPT !.lflow_cache = lflow_handle_cached_flows(@, cycle.tracked, in)]
    /\ last' = Last("changed_flows", TRUE, TRUE)
    /\ cycle' = Idle
    /\ UNCHANGED <<in, catalogue>>

\* A datapath becomes local: lflow_add_flows_for_datapath.
DatapathAdd ==
    /\ cycle.phase = "idle"
    /\ \E dp \in Datapaths \ in.local_datapaths :
           /\ in' = [in EXCEPT !.local_datapaths = @ \cup {dp}]
           /\ out' = lflow_add_flows_for_datapath(dp, in', begin_cycle(out))
    /\ last' = Last("add_flows_for_datapath", TRUE, TRUE)
    /\ UNCHANGED <<catalogue, cycle>>

Next ==
    \/ RunFull
    \/ RowAdd
    \/ RowDelete
    \/ PortBindingChange
    \/ McGroupChange
    \/ AddrSetUpdate
    \/ FallbackChangedRef
    \/ HandleTrackedFlows
    \/ DatapathAdd

Spec == Init /\ [][Next]_vars

\* ------------------------- several reference changes in one iteration

\* A port binding and a multicast group of the same name change in one
\* iteration: lflow_handle_changed_port_bindings runs first,
\* lflow_handle_changed_mc_groups is still to run.
PortAndMcGroupChange ==
    /\ cycle.phase = "idle"
    /\ \E name \in PortNames, dp \in Datapaths, deleted \in DeletedWith :
           /\ uses_port(catalogue, name)
           /\ \E pbs \in IF name \in DOMAIN in.port_bindings
                         THEN {DelFn(in.port_bindings, name)}
                         ELSE {PutFn(in.port_bindings, name, PortBinding(d)) :
                                   d \in Datapaths} :
                  in' = [in EXCEPT !.port_bindings = pbs,
                                   !.mc_groups =
                                       IF McGroup(name, dp) \in @
                                       THEN @ \ {McGroup(name, dp)}
                                       ELSE @ \cup {McGroup(name, dp)},
                                   !.lflows = @ \ deleted]
           /\ \E h \in {lflow_handle_changed_ref(RefKey("PORTBINDING", name, 0),
                                                 in', begin_cycle(out))} :
                  /\ out' = h.out
                  /\ last' = Last("changed_port_bindings", h.ret, h.changed)
           /\ cycle' = [Idle EXCEPT !.phase = "mc_groups", !.tracked = deleted,
                                    !.mc_group = <<name, dp>>]
    /\ UNCHANGED catalogue

\* lflow_handle_changed_mc_groups, after lflow_handle_changed_port_bindings
\* in the same iteration.
HandleMcGroups ==
    /\ cycle.phase = "mc_groups"
    /\ \E h \in {lflow_handle_changed_ref(
                      RefKey("MC_GROUP", cycle.mc_group[1], cycle.mc_group[2]),
                      in, out)} :
           /\ out' = h.out
           /\ last' = Last("changed_mc_groups", h.ret, h.changed)
    /\ cycle' = after_ref(cycle.tracked)
    /\ UNCHANGED <<in, catalogue>>

\* The rows of a run that look up a port.
CataloguesP == {{4, 5}}

InitP ==
    /\ catalogue \in CataloguesP
    /\ \E related \in SUBSET {<<1, 1>>} :
           in = [lflows |-> {}, port_bindings |-> EmptyFn, mc_groups |-> {},
                 addr_sets |-> [n \in AddrSetNames |-> {1, 2}],
                 local_datapaths |-> {}, related_lport_ids |-> related]
    /\ \E enabled \in BOOLEAN : out = out_empty(lflow_cache_new(enabled))
    /\ cycle = Idle
    /\ last = Last("init", TRUE, FALSE)

NextP ==
    \/ RunFull
    \/ RowAdd
    \/ RowDelete
    \/ PortBindingChange
    \/ McGroupChange
    \/ PortAndMcGroupChange
    \/ HandleMcGroups
    \/ HandleTrackedFlows
    \/ DatapathAdd

SpecP == InitP /\ [][NextP]_vars

\* ------------------- rows that do not parse, and more rows than ids

\* The rows of a run: one whose actions do not parse, one whose match does
\* not parse, four rows that need a conjunction id for each of their two
\* datapaths, and a row that needs none.  The translation cache is enabled.
CataloguesX == {{8, 9, 13}, {3, 10, 11, 12}}

InitX ==
    /\ catalogue \in CataloguesX
    /\ in = [lflows |-> {}, port_bindings |-> EmptyFn, mc_groups |-> {},
             addr_sets |-> [n \in AddrSetNames |-> {1, 2}],
             local_datapaths |-> {}, related_lport_ids |-> {}]
    /\ out = out_empty(lflow_cache_new(TRUE))
    /\ cycle = Idle
    /\ last = Last("init", TRUE, FALSE)

NextX ==
    \/ RunFull
    \/ RowAdd
    \/ RowDelete
    \/ DatapathAdd

SpecX == InitX /\ [][NextX]_vars

\* ------------------------- rows with an address set and a port

\* The rows of a run that reference the address set, one of them together
\* with a port.
CataloguesA == {{2, 7}, {3, 14}, {9, 13, 15}}

InitA ==
    /\ catalogue \in CataloguesA
    /\ \E related \in SUBSET {<<1, 1>>} :
           in = [lflows |-> {}, port_bindings |-> EmptyFn, mc_groups |-> {},
                 addr_sets |-> [n \in AddrSetNames |-> {1, 2}],
                 local_datapaths |-> {}, related_lport_ids |-> related]
    /\ \E enabled \in BOOLEAN : out = out_empty(lflow_cache_new(enabled))
    /\ cycle = Idle
    /\ last = Last("init", TRUE, FALSE)

NextA ==
    \/ RunFull
    \/ RowAdd
    \/ RowDelete
    \/ PortBindingChange
    \/ AddrSetUpdate
    \/ FallbackChangedRef
    \/ HandleTrackedFlows
    \/ DatapathAdd

SpecA == InitA /\ [][NextA]_vars

\* ------------------------- address-set updates the fast path hands back

\* The row sets of a run: a row that joins the address set with a constant
\* next to a plain one and to one whose port is never bound; and a
\* conjunctive address-set row next to three rows that take every
\* conjunction id.
CataloguesB == {{1, 7, 15}, {2, 3, 10, 11}}

\* Both datapaths are local, no port is bound, the cache is disabled.
InitB ==
    /\ catalogue \in CataloguesB
    /\ in = [lflows |-> {}, port_bindings |-> EmptyFn, mc_groups |-> {},
             addr_sets |-> [n \in AddrSetNames |-> {1, 2}],
             local_datapaths |-> Datapaths, related_lport_ids |-> {}]
    /\ out = out_empty(lflow_cache_new(FALSE))
    /\ cycle = Idle
    /\ last = Last("init", TRUE, FALSE)

\* Addresses are added to an address set: lflow_handle_addr_set_update
\* with as_diff->deleted empty.
AddrSetAdditionFrom(addrs) ==
    /\ cycle.phase = "idle"
    /\ \E name \in AddrSetNames :
       \E added \in (SUBSET (addrs \ in.addr_sets[name])) \ {{}} :
           /\ uses_addr_set(catalogue, name)
           /\ \E h \in {lflow_handle_addr_set_update(
                            name, added, {},
                            [in EXCEPT !.addr_sets[name] = @ \cup added],
                            begin_cycle(out))} :
                  /\ in' = [in EXCEPT !.addr_sets = h.addr_sets]
                  /\ out' = h.out
                  /\ last' = [Last("addr_set_update", h.ret, h.changed)
                                EXCEPT !.as_reqs = h.reqs]
                  /\ cycle' = IF h.ret THEN Idle
                              ELSE [phase |-> "fallback", as_name |-> name,
                                    tracked |-> {},
                                    after_full |-> last.op = "run_full",
                                    mc_group |-> <<>>]
    /\ UNCHANGED catalogue

AddrSetAddition == AddrSetAdditionFrom(Addrs)

NextB ==
    \/ RowAdd
    \/ RowDelete
    \/ AddrSetAddition
    \/ FallbackChangedRef

SpecB == InitB /\ [][NextB]_vars

\* ------------------------------------------- additions of the last address

\* The addresses added in these runs: the low bytes 254 and 255 are among
\* them.
WrapAddrs == (3..MaxAddr) \cup {254, 255}

\* The rows of a run: a row of one datapath, a row of a datapath group
\* whose match needs a conjunction, and a row that joins a constant, all on
\* the address set.
CataloguesD == {{1, 2, 15}}

InitD ==
    /\ catalogue \in CataloguesD
    /\ in = [lflows |-> {}, port_bindings |-> EmptyFn, mc_groups |-> {},
             addr_sets |-> [n \in AddrSetNames |-> {1, 2}],
             local_datapaths |-> Datapaths, related_lport_ids |-> {}]
    /\ out = out_empty(lflow_cache_new(FALSE))
    /\ cycle = Idle
    /\ last = Last("init", TRUE, FALSE)

NextD ==
    \/ RowAdd
    \/ RowDelete
    \/ AddrSetAdditionFrom(WrapAddrs)
    \/ FallbackChangedRef

SpecD == InitD /\ [][NextD]_vars

\* ------------------------------------------------ rows that pin a port

\* The rows of a run: rows tagged with their in_out_port (16, and 17 whose
\* match needs a conjunction); rows that pin a port untagged, as inport in
\* an ingress table (4), as outport in an egress table (18), as inport in
\* an egress table (20), and on the router (19); a row on the address set
\* that pins its inport (7) next to a row without a port (13) and a row
\* whose additions fall back (15).
CataloguesG == {{16, 17}, {4, 18, 19, 20}, {7, 13, 15}}

InitG ==
    /\ catalogue \in CataloguesG
    /\ \E related \in SUBSET {<<1, 1>>, <<3, 1>>} :
           in = [lflows |-> {}, port_bindings |-> EmptyFn, mc_groups |-> {},
                 addr_sets |-> [n \in AddrSetNames |-> {1, 2}],
                 local_datapaths |-> {1} \cup Routers, related_lport_ids |-> related]
    /\ \E enabled \in BOOLEAN : out = out_empty(lflow_cache_new(enabled))
    /\ cycle = Idle
    /\ last = Last("init", TRUE, FALSE)

NextG ==
    \/ RunFull
    \/ RowAdd
    \/ RowDelete
    \/ PortBindingChangeOn({1} \cup Routers)
    \/ AddrSetAddition
    \/ FallbackChangedRef
    \/ HandleTrackedFlows

SpecG == InitG /\ [][NextG]_vars

\* ------------------------------------- rows with is_chassis_resident

\* The HA-chassis group of a chassis-redirect port becomes active on this
\* chassis, or stops being so: lflow_handle_flows_for_lport.
LportResidenceChange ==
    /\ cycle.phase = "idle"
    /\ \E name \in CrPortNames :
           /\ uses_port(catalogue, name)
           /\ name \in DOMAIN in.port_bindings
           /\ in' = [in EXCEPT !.port_bindings[name].ha_active = ~@]
           /\ \E h \in {lflow_handle_flows_for_lport(name, in', begin_cycle(out))} :
                  /\ out' = h.out
                  /\ last' = [Last("flows_for_lport", h.ret, h.changed)
                                  EXCEPT !.expr_before =
                                      {r \in Rows :
                                           lflow_cache_get(out.lflow_cache, r).type = "EXPR"}]
    /\ UNCHANGED <<catalogue, cycle>>

\* The rows of a run whose match is conditioned on a chassis-redirect port.
CataloguesE == {{6}}

InitE ==
    /\ catalogue \in CataloguesE
    /\ in = [lflows |-> {}, port_bindings |-> EmptyFn, mc_groups |-> {},
             addr_sets |-> [n \in AddrSetNames |-> {1, 2}],
             local_datapaths |-> {}, related_lport_ids |-> {}]
    /\ \E enabled \in BOOLEAN : out = out_empty(lflow_cache_new(enabled))
    /\ cycle = Idle
    /\ last = Last("init", TRUE, FALSE)

NextE ==
    \/ RunFull
    \/ RowAdd
    \/ RowDelete
    \/ PortBindingChange
    \/ LportResidenceChange
    \/ HandleTrackedFlows
    \/ DatapathAdd

SpecE == InitE /\ [][NextE]_vars

\* ------------------------------------ state machine of the adjunct tables

\* The contents a row of a table can have, by uuid: the learnt binding 201
\* with a MAC that parses or one that does not, the FDB entry 401 with one
\* of two MACs, the static binding 301 with or without override (its
\* address is an IPv6 one), the load balancer 101
\* named "a" with a hairpin_snat_ip on datapath 1, and the load balancer
\* 102 of either name on datapath 2.
AdjunctRows(uuid) ==
    CASE uuid = 201 -> {[logical_port |-> "p1", ip |-> 1, mac |-> m] : m \in {0, 1}}
      [] uuid = 301 -> {[logical_port |-> "p1", ip |-> 3, mac |-> 1,
                         override_dynamic_mac |-> ov] : ov \in BOOLEAN}
      [] uuid = 401 -> {[dp_key |-> 1, mac |-> m, port_key |-> 1] : m \in {1, 2}}
      [] uuid = 101 -> {[name |-> "a", datapaths |-> <<1>>, vip |-> 1, backend |-> 1,
                         hairpin_snat_ip |-> TRUE]}
      [] uuid = 102 -> {[name |-> n, datapaths |-> <<2>>, vip |-> 2, backend |-> 2,
                         hairpin_snat_ip |-> s] : n \in {"a", "b"}, s \in BOOLEAN}

\* The changes a row can be tracked with: deleted or updated when it is in
\* the table, new when it is not.
TrackedChanges(table, uuid) ==
    IF uuid \in DOMAIN table
    THEN {Tracked(uuid, table[uuid], TRUE, FALSE)} \cup
         {Tracked(uuid, r, FALSE, FALSE) : r \in AdjunctRows(uuid) \ {table[uuid]}}
    ELSE {Tracked(uuid, r, FALSE, TRUE) : r \in AdjunctRows(uuid)}

\* The table after the tracked changes.
RECURSIVE apply_tracked(_, _)
apply_tracked(table, tracked) ==
    IF tracked = <<>> THEN table
    ELSE apply_tracked(IF Head(tracked).deleted THEN DelFn(table, Head(tracked).uuid)
                       ELSE PutFn(table, Head(tracked).uuid, Head(tracked).row),
                       Tail(tracked))

\* in holds the port bindings, the local datapaths and the four tables; out
\* the sink, the name map of the load-balancer ids and the id pool.  The
\* other variables are not used.
InitL ==
    /\ \E local \in {{1}, {1, 2}}, ct_label \in BOOLEAN :
           in = [port_bindings |-> PutFn(EmptyFn, "p1", PortBinding(1)),
                 local_datapaths |-> local,
                 check_ct_label_for_lb_hairpin |-> ct_label,
                 mac_binding_table |-> EmptyFn, static_mac_binding_table |-> EmptyFn,
                 fdb_table |-> EmptyFn, lb_table |-> EmptyFn]
    /\ out = [flow_table |-> {}, hairpin_lb_ids |-> EmptyFn, hairpin_id_pool |-> {}]
    /\ catalogue = {}
    /\ cycle = Idle
    /\ last = Last("init", TRUE, FALSE)

\* A full recompute: the sink is emptied, then lflow_run.  The name map and
\* the pool are kept; ovs_assert stops the program when the pool has no id
\* for a load balancer without one.
RunFullAdjuncts ==
    /\ Cardinality({u \in DOMAIN in.lb_table :
                        simap_get(out.hairpin_lb_ids, in.lb_table[u].name) = 0})
           <= MaxLbId - Cardinality(out.hairpin_id_pool)
    /\ out' = lflow_run_adjuncts(in, [out EXCEPT !.flow_table = {}])
    /\ UNCHANGED <<in, catalogue, cycle, last>>

MacBindingChange ==
    /\ \E t \in TrackedChanges(in.mac_binding_table, 201) :
           /\ in' = [in EXCEPT !.mac_binding_table = apply_tracked(@, <<t>>)]
           /\ out' = [out EXCEPT !.flow_table =
                                     lflow_handle_changed_mac_bindings(<<t>>, in', @)]
    /\ UNCHANGED <<catalogue, cycle, last>>

StaticMacBindingChange ==
    /\ \E t \in TrackedChanges(in.static_mac_binding_table, 301) :
           /\ in' = [in EXCEPT !.static_mac_binding_table = apply_tracked(@, <<t>>)]
           /\ out' = [out EXCEPT !.flow_table =
                                     lflow_handle_changed_static_mac_bindings(<<t>>, in', @)]
    /\ UNCHANGED <<catalogue, cycle, last>>

FdbChange ==
    /\ \E t \in TrackedChanges(in.fdb_table, 401) :
           /\ in' = [in EXCEPT !.fdb_table = apply_tracked(@, <<t>>)]
           /\ out' = [out EXCEPT !.flow_table = lflow_handle_changed_fdbs(<<t>>, in', @)]
    /\ UNCHANGED <<catalogue, cycle, last>>

\* One or both load balancers change in an iteration, tracked in either
\* order; ovs_assert stops the program when the pool has no id for a new one.
LbChange ==
    /\ \E t1 \in TrackedChanges(in.lb_table, 101) \cup TrackedChanges(in.lb_table, 102) :
       \E tracked \in {<<t1>>} \cup
                      {<<t1, t2>> : t2 \in {t \in TrackedChanges(in.lb_table, 101) \cup
                                                  TrackedChanges(in.lb_table, 102) :
                                                t.uuid # t1.uuid}} :
           /\ Cardinality({i \in DOMAIN tracked : tracked[i].new})
                  <= MaxLbId - Cardinality(out.hairpin_id_pool)
           /\ in' = [in EXCEPT !.lb_table = apply_tracked(@, tracked)]
           /\ out' = lflow_handle_changed_lbs(tracked, in', out)
    /\ UNCHANGED <<catalogue, cycle, last>>

NextL ==
    \/ RunFullAdjuncts
    \/ MacBindingChange
    \/ StaticMacBindingChange
    \/ FdbChange
    \/ LbChange

SpecL == InitL /\ [][NextL]_vars

\* ------------------------------------------------------------- properties

\* The sink lflow_run produces on an input from an empty sink, R and CID,
\* with the given translation cache.
run_full_sink(i, lc) == lflow_run(i, out_empty(lc)).flow_table

\* The handlers of tracked changes.
IncrementalOps ==
    {"changed_flows", "changed_port_bindings", "changed_mc_groups", "addr_set_update"}

\* A step from the state a full recompute left to the state after one
\* tracked change and its handler, which reported the change handled.
HandledAfterRunFull ==
    /\ last.op = "run_full"
    /\ cycle.phase = "idle"
    /\ last'.op \in IncrementalOps
    /\ last'.ret
    /\ cycle'.phase = "idle"

\* C1: after a full recompute, a tracked change and its incremental handler
\* that returns handled, the sink equals the sink of a full recompute on the
\* changed input (whether that recompute starts with an empty translation
\* cache or with the cache the handler left).
C1_IncrementalEqualsFull ==
    [][HandledAfterRunFull =>
           \/ out'.flow_table =
                  run_full_sink(in', lflow_cache_new(out'.lflow_cache.enabled))
           \/ out'.flow_table = run_full_sink(in', out'.lflow_cache)]_vars

\* The datapaths of a row.
lflow_dps(lflow) == {lflow_table[lflow].dps[k] : k \in DOMAIN lflow_table[lflow].dps}

\* The rows that reference an address set according to R and are present.
as_ref_rows(i, o, as_name) ==
    IF ref_lflow_lookup(o.lfrr.ref_lflow_table, RefKey("ADDRSET", as_name, 0))
    THEN DOMAIN o.lfrr.ref_lflow_table[RefKey("ADDRSET", as_name, 0)] \cap i.lflows
    ELSE {}

\* The flows that the addresses ips of an address set induce for a row on a
\* datapath: the matches of the row's translation on input i that pin one of
\* the addresses, with the conjunction ids the row holds in o.
as_induced_flows(i, o, lflow, dp, as_name, ips) ==
    LET row == lflow_table[lflow]
        em == expr_to_matches(Expr(row.as, i.addr_sets[as_name], row.port, row.sets),
                              i, o.lfrr, lflow, dp)
        ms == IF em.n_conjs > 0
              THEN expr_matches_prepare(
                       em.matches, lflow_conj_ids_find(o.conj_ids, lflow, dp) - 1)
              ELSE em.matches
    IN {Flow(dp, x.m, x.conjs, lflow,
             IF x.conjs = {} THEN Act(lflow, 0) ELSE NoAct, x.as_name, x.as_ip) :
            x \in {y \in ms : y.as_name = as_name /\ y.m.src \in ips}}

\* A step of lflow_handle_addr_set_update that reports the update handled.
AddrSetUpdateHandled ==
    /\ cycle.phase = "idle"
    /\ last'.op = "addr_set_update"
    /\ last'.ret

\* C2: when lflow_handle_addr_set_update returns handled, the flows added to
\* the sink are exactly the flows that the added addresses induce for the
\* referencing rows on their local datapaths, and the flows removed are
\* exactly the flows of those rows that pin a deleted address.
C2_FastPathExact ==
    [][AddrSetUpdateHandled =>
           \A as_name \in AddrSetNames :
               LET X == in'.addr_sets[as_name] \ in.addr_sets[as_name]
                   Y == in.addr_sets[as_name] \ in'.addr_sets[as_name]
                   rows == as_ref_rows(in', out, as_name)
               IN /\ out'.flow_table \ out.flow_table =
                         UNION {as_induced_flows(in', out, x[1], x[2], as_name, X) :
                                    x \in {y \in rows \X in'.local_datapaths :
                                               y[2] \in lflow_dps(y[1])}}
                  /\ out.flow_table \ out'.flow_table =
                         {f \in out.flow_table :
                              f.m.src \in Y /\ f.owners \cap rows # {}}]_vars

\* C2 witness: a handled update added an address, and a conjunctive clause
\* flow of row 2 pins the added address.
C2_Witness ==
    /\ last.op = "addr_set_update"
    /\ last.ret
    /\ last.changed
    /\ in.addr_sets["as1"] = Addrs
    /\ \E f \in out.flow_table :
           2 \in f.owners /\ f.conjs # {} /\ f.as_name = "as1" /\ f.m.src = MaxAddr

\* ------------------------------------- the resource-reference index alone

\* The reference keys and rows the operations of R are called with.
RefKeys ==
    {RefKey("ADDRSET", "as1", 0), RefKey("PORTBINDING", "p1", 0),
     RefKey("MC_GROUP", "p1", 1)}

RefRows == {1, 2}

InitR ==
    /\ catalogue = RefRows
    /\ in = [lflows |-> {}, port_bindings |-> EmptyFn, mc_groups |-> {},
             addr_sets |-> [n \in AddrSetNames |-> {}],
             local_datapaths |-> {}, related_lport_ids |-> {}]
    /\ out = out_empty(lflow_cache_new(FALSE))
    /\ cycle = Idle
    /\ last = Last("init", TRUE, FALSE)

\* lflow_resource_add with any key, row and reference count.
ResourceAdd ==
    /\ \E key \in RefKeys, lflow \in RefRows, ref_count \in 0..1 :
           out' = [out EXCEPT !.lfrr = lflow_resource_add(@, key, lflow, ref_count)]
    /\ last' = Last("resource_add", TRUE, out' # out)
    /\ UNCHANGED <<in, catalogue, cycle>>

\* lflow_resource_destroy_lflow with any row.
ResourceDestroyLflow ==
    /\ \E lflow \in RefRows :
           out' = [out EXCEPT !.lfrr = lflow_resource_destroy_lflow(@, lflow)]
    /\ last' = Last("resource_destroy_lflow", TRUE, out' # out)
    /\ UNCHANGED <<in, catalogue, cycle>>

\* lflow_resource_clear.
ResourceClear ==
    /\ out' = [out EXCEPT !.lfrr = lflow_resource_clear(@)]
    /\ last' = Last("resource_clear", TRUE, out' # out)
    /\ UNCHANGED <<in, catalogue, cycle>>

NextR ==
    \/ ResourceAdd
    \/ ResourceDestroyLflow
    \/ ResourceClear

SpecR == InitR /\ [][NextR]_vars

\* The two sides of R are inverses of each other: a row in a reference's
\* bucket has exactly one entry for that reference in its own list, with the
\* same count, and every entry of a row's list is in the reference's bucket.
lfrr_consistent(l) ==
    /\ \A key \in DOMAIN l.ref_lflow_table :
           \A r \in DOMAIN l.ref_lflow_table[key] :
               /\ r \in DOMAIN l.lflow_ref_table
               /\ Cardinality({k \in DOMAIN l.lflow_ref_table[r] :
                                   l.lflow_ref_table[r][k].key = key}) = 1
               /\ \A k \in DOMAIN l.lflow_ref_table[r] :
                      l.lflow_ref_table[r][k].key = key =>
                          l.lflow_ref_table[r][k].ref_count = l.ref_lflow_table[key][r]
    /\ \A r \in DOMAIN l.lflow_ref_table :
           \A k \in DOMAIN l.lflow_ref_table[r] :
               /\ l.lflow_ref_table[r][k].key \in DOMAIN l.ref_lflow_table
               /\ r \in DOMAIN l.ref_lflow_table[l.lflow_ref_table[r][k].key]

\* C3: after any sequence of lflow_resource_add, lflow_resource_destroy_lflow
\* and lflow_resource_clear, every (kind, name, row) of the ref->rows map has
\* exactly one matching entry in the row->refs map, and vice versa.
C3_IndexConsistent == lfrr_consistent(out.lfrr)

\* C3 witness: a row with references was forgotten while the other row still
\* holds two references.
C3_Witness ==
    /\ last.op = "resource_destroy_lflow"
    /\ last.changed
    /\ \E r \in DOMAIN out.lfrr.lflow_ref_table : Len(out.lfrr.lflow_ref_table[r]) >= 2
    /\ Cardinality(DOMAIN out.lfrr.lflow_ref_table) = 1

\* C4: in every state reached by full recomputes and incremental handlers,
\* a row whose cache entry is MATCHES has no entry in R's row->refs map.
C4_CacheSafety ==
    \A r \in Rows :
        lflow_cache_get(out.lflow_cache, r).type = "MATCHES" =>
            ~lflow_ref_lookup(out.lfrr.lflow_ref_table, r)

\* C4 witness: after a recompute with the cache enabled, the row whose
\* actions look up a port has flows, entries in R and an EXPR entry, while
\* the row without references has flows and a MATCHES entry.
C4_Witness ==
    /\ last.op = "run_full"
    /\ lflow_cache_get(out.lflow_cache, 5).type = "EXPR"
    /\ lflow_ref_lookup(out.lfrr.lflow_ref_table, 5)
    /\ \E f \in out.flow_table : 5 \in f.owners
    /\ lflow_cache_get(out.lflow_cache, 3).type = "MATCHES"
    /\ \E f \in out.flow_table : 3 \in f.owners

\* Whether the allocator holds exactly the slice a MATCHES entry records,
\* for the row and the datapath dp.
cached_slice_held(o, r, dp) ==
    LET lcv == lflow_cache_get(o.lflow_cache, r)
    IN [lflow |-> r, dp |-> dp, start |-> lcv.conj_id_ofs, n |-> lcv.n_conjs]
           \in o.conj_ids

\* Whether the row's cache entry is MATCHES with at least one conjunction.
cached_with_conjs(o, r) ==
    LET lcv == lflow_cache_get(o.lflow_cache, r)
    IN lcv.type = "MATCHES" /\ lcv.n_conjs > 0

\* C5 as stated: for every row whose cache entry is MATCHES(base, n) with
\* n > 0, the allocator holds exactly [base, base + n) for the row and the
\* datapath that was translated when the entry was cached.
C5_CachedSliceHeld ==
    \A r \in Rows :
        cached_with_conjs(out, r) =>
            cached_slice_held(out, r, lflow_cache_get(out.lflow_cache, r).dp)

\* C5: for every row that is in the logical-flow table and has a local
\* datapath, if its cache entry is MATCHES(base, n) with n > 0 then the
\* allocator holds exactly [base, base + n) for the row and one of the
\* row's datapaths.
C5_PresentRowSliceHeld ==
    \A r \in in.lflows :
        (cached_with_conjs(out, r) /\ lflow_dps(r) \cap in.local_datapaths # {}) =>
            \E dp \in lflow_dps(r) : cached_slice_held(out, r, dp)

\* A full recompute served a datapath-group row from its cached matches and
\* reserved the recorded slice for a datapath other than the one that was
\* translated when the entry was cached.
C5_Witness ==
    /\ last.op = "run_full"
    /\ 3 \in in.lflows
    /\ cached_with_conjs(out, 3)
    /\ \E dp \in lflow_dps(3) \cap in.local_datapaths :
           /\ dp # lflow_cache_get(out.lflow_cache, 3).dp
           /\ cached_slice_held(out, 3, dp)
    /\ \E f \in out.flow_table : 3 \in f.owners

\* C6: a full recompute repeated on the same input into an emptied sink,
\* with the translation cache the first run left, yields the same sink
\* contents, conjunction ids included.
C6_RunFullIdempotent ==
    last.op = "run_full" => run_full_sink(in, out.lflow_cache) = out.flow_table

\* C7: a row none of whose datapaths is in the local-datapaths map has no
\* flow in the sink, whatever operations have run.
C7_NoEmissionWithoutLocalDatapath ==
    \A r \in Rows :
        lflow_dps(r) \cap in.local_datapaths = {} =>
            ~\E f \in out.flow_table : r \in f.owners

\* A full recompute translated a table that holds row 1, whose only
\* datapath is not local, next to a row that has a local datapath and flows.
C7_Witness ==
    /\ last.op = "run_full"
    /\ {1, 2} \subseteq in.lflows
    /\ lflow_dps(1) \cap in.local_datapaths = {}
    /\ \E f \in out.flow_table : 2 \in f.owners
    /\ ~\E f \in out.flow_table : 1 \in f.owners

\* A step that is a call of lflow_handle_addr_set_update for the set.
AddrSetUpdateStep(as_name) ==
    /\ cycle.phase = "idle"
    /\ last'.op = "addr_set_update"
    /\ in'.addr_sets[as_name] # in.addr_sets[as_name]

\* The three conditions under which the update is not taken by the fast
\* path, on the sizes of the step's update.
AddrSetUpdateRefused(as_name) ==
    LET new_size == Cardinality(in'.addr_sets[as_name])
        n_added == Cardinality(in'.addr_sets[as_name] \ in.addr_sets[as_name])
        n_deleted == Cardinality(in.addr_sets[as_name] \ in'.addr_sets[as_name])
    IN \/ new_size + n_deleted - n_added <= 1
       \/ new_size <= 1
       \/ n_added + n_deleted >= new_size

\* What the per-row fast path returns for the step's update.
AddrSetFastPath(as_name) ==
    LET key == RefKey("ADDRSET", as_name, 0)
        o == begin_cycle(out)
    IN IF ~ref_lflow_lookup(o.lfrr.ref_lflow_table, key)
       THEN [ret |-> TRUE, changed |-> FALSE, out |-> o]
       ELSE addr_set_update_loop(
                SetToSeq(DOMAIN o.lfrr.ref_lflow_table[key]),
                o.lfrr.ref_lflow_table[key], as_name,
                in'.addr_sets[as_name] \ in.addr_sets[as_name],
                in.addr_sets[as_name] \ in'.addr_sets[as_name], in', o, FALSE, <<>>)

\* C8: lflow_handle_addr_set_update returns unhandled and leaves the sink,
\* R, CID and the cache as they were whenever the old size is at most 1, or
\* the new size is at most 1, or |added| + |deleted| >= the new size; in
\* every other case it returns what the per-row fast path returns.
C8_AddrSetGate ==
    [][\A as_name \in AddrSetNames :
           AddrSetUpdateStep(as_name) =>
               IF AddrSetUpdateRefused(as_name)
               THEN /\ ~last'.ret
                    /\ out'.flow_table = out.flow_table
                    /\ out'.lfrr = out.lfrr
                    /\ out'.conj_ids = out.conj_ids
                    /\ out'.lflow_cache = out.lflow_cache
               ELSE /\ last'.ret = AddrSetFastPath(as_name).ret
                    /\ out' = AddrSetFastPath(as_name).out]_vars

\* The update was refused because |added| + |deleted| equals the new size
\* (both sizes are 2), while rows reference the set and the sink still holds
\* a flow for an address that left the set.
C8_Witness ==
    /\ last.op = "addr_set_update"
    /\ ~last.ret
    /\ cycle.phase = "fallback"
    /\ Cardinality(in.addr_sets["as1"]) = 2
    /\ ref_lflow_lookup(out.lfrr.ref_lflow_table, RefKey("ADDRSET", "as1", 0))
    /\ \E f \in out.flow_table :
           f.as_name = "as1" /\ f.as_ip \notin in.addr_sets["as1"]

\* A step that is the call of lflow_handle_changed_ref following an
\* address-set update that was not handled, when that update was the first
\* change after a full recompute and no row was deleted with it.
FallbackStep ==
    /\ cycle.phase = "fallback"
    /\ cycle.after_full
    /\ cycle.tracked = {}
    /\ last'.op = "changed_ref"

\* C9: after lflow_handle_addr_set_update returned unhandled, the call of
\* lflow_handle_changed_ref for the address set leaves the sink equal to the
\* sink of a full recompute on the updated input (whether that recompute
\* starts with an empty translation cache or with the cache the handler left).
C9_FallbackEqualsFull ==
    [][FallbackStep =>
           \/ out'.flow_table =
                  run_full_sink(in', lflow_cache_new(out'.lflow_cache.enabled))
           \/ out'.flow_table = run_full_sink(in', out'.lflow_cache)]_vars

\* A step in which the port binding is created on a local datapath and
\* lflow_handle_changed_port_bindings runs.
PortCreatedStep(name) ==
    /\ cycle.phase = "idle"
    /\ last'.op = "changed_port_bindings"
    /\ name \notin DOMAIN in.port_bindings
    /\ name \in DOMAIN in'.port_bindings
    /\ in'.port_bindings[name].datapath \in in'.local_datapaths

\* The rows that name the port, in their match or in their actions.
rows_naming_port(name) ==
    {r \in Rows : lflow_table[r].port = name \/ lflow_table[r].act_port = name}

\* Whether the sink holds a flow of the row that uses the tunnel key where
\* the row names the port.
row_uses_key(o, r, name, key) ==
    \E f \in o.flow_table :
        /\ r \in f.owners
        /\ IF lflow_table[r].port = name THEN f.m.inport = key
           ELSE f.act.port = key

\* The rows that were translated while the port did not exist and are still
\* in the table when it is created.
rows_awaiting_port(name) ==
    {r \in rows_naming_port(name) \cap in.lflows \cap in'.lflows :
         lflow_dps(r) \cap in.local_datapaths # {}}

\* Whether the row is recorded in R under (PORTBINDING, name).
recorded_under_port(o, r, name) ==
    /\ ref_lflow_lookup(o.lfrr.ref_lflow_table, RefKey("PORTBINDING", name, 0))
    /\ r \in DOMAIN o.lfrr.ref_lflow_table[RefKey("PORTBINDING", name, 0)]

port_resolves_for(i, r, name) ==
    LET pb == i.port_bindings[name]
    IN /\ pb.datapath \in lflow_dps(r)
       /\ (lflow_table[r].port = name /\ is_switch(pb.datapath)) =>
              <<pb.datapath, pb.tunnel_key>> \in i.related_lport_ids

chassis_resident(i, name) == is_chassis_resident_cb(i, lfrr_empty, 0, name).resident

\* The port becomes resident and the handler of its binding runs.
ResidenceGained(name) ==
    /\ last'.op \in {"flows_for_lport", "changed_port_bindings"}
    /\ ~chassis_resident(in, name)
    /\ chassis_resident(in', name)

\* The flows of a row on a datapath.
row_flows(o, r, dp) == {g \in o.flow_table : r \in g.owners /\ g.dp = dp}

\* The flows a row conditioned on a resident port has on a datapath: its
\* match has no other term and its actions name no port.
resident_row_flows(r, dp) == {Flow(dp, Match(0, 0, 0, 0, 0), {}, r, Act(r, 0), "", 0)}

\* C11: when the port named by is_chassis_resident becomes resident and
\* the handler of its binding runs lflow_handle_changed_ref, every row in the
\* table whose match is conditioned on the port has, on each of its local
\* datapaths, exactly the flows of its match (which it did not have while
\* the condition was false), whether or not the row had a cached expression.
C11_ResidentRowEmitted ==
    [][\A name \in CrPortNames :
           ResidenceGained(name) =>
               \A r \in in'.lflows :
                   lflow_table[r].resident = name =>
                       \A dp \in in'.local_datapaths :
                           (\E i \in DOMAIN lflow_table[r].dps : lflow_table[r].dps[i] = dp)
                               => /\ row_flows(out, r, dp) = {}
                                  /\ row_flows(out', r, dp) = resident_row_flows(r, dp)]_vars

\* The group became active while the row had a cached expression, and the
\* row's flow is in the sink.
C11_Witness ==
    /\ last.op = "flows_for_lport"
    /\ last.changed
    /\ 6 \in last.expr_before
    /\ 6 \in in.lflows
    /\ chassis_resident(in, "cr1")
    /\ row_flows(out, 6, 1) = resident_row_flows(6, 1)

\* Whether two allocations share a conjunction id.
slices_overlap(a, b) == a.start < b.start + b.n /\ b.start < a.start + a.n

row_matches(i, o, r, dp) ==
    LET conv == convert_match_to_expr(r, i, lfrr_empty)
        ev == expr_evaluate_condition(conv.expr, i, lfrr_empty, r)
        em == expr_to_matches(ev.expr, i, lfrr_empty, r, dp)
        x0 == lflow_conj_ids_find(o.conj_ids, r, dp)
    IN {x.m : x \in IF em.n_conjs > 0 THEN expr_matches_prepare(em.matches, x0 - 1)
                    ELSE em.matches}

\* C13: between engine iterations, a row of the table that is bound to a
\* datapath group has in the sink, for every member datapath that is local,
\* exactly its matches with that datapath as metadata, and no flow for a
\* member that is not local.
C13_GroupRowPerLocalDatapath ==
    cycle.phase = "idle" =>
        \A r \in in.lflows :
            lflow_table[r].dp_group =>
                \A k \in DOMAIN lflow_table[r].dps :
                    LET dp == lflow_table[r].dps[k]
                    IN {g.m : g \in row_flows(out, r, dp)} =
                           IF dp \in in.local_datapaths
                           THEN row_matches(in, out, r, dp)
                           ELSE {}

\* The group row after a full recompute with only the second member
\* local: its flows are on datapath 2, none on datapath 1.
C13_Witness ==
    /\ cycle.phase = "idle"
    /\ last.op = "run_full"
    /\ 3 \in in.lflows
    /\ in.local_datapaths = {2}
    /\ Cardinality(row_flows(out, 3, 2)) = 5
    /\ row_flows(out, 3, 1) = {}

\* The calls of lflow_handle_changed_ref a step makes: the key, and the
\* state the handler starts from.
RefHandlerCalls ==
    IF cycle.phase = "idle" /\ last'.op = "changed_port_bindings"
    THEN {[key |-> RefKey("PORTBINDING", n, 0), start |-> begin_cycle(out)] :
              n \in {m \in PortNames \cup CrPortNames :
                          (m \in DOMAIN in.port_bindings)
                              # (m \in DOMAIN in'.port_bindings)}}
    ELSE IF cycle.phase = "idle" /\ last'.op = "changed_mc_groups"
    THEN {[key |-> RefKey("MC_GROUP", g.name, g.datapath), start |-> begin_cycle(out)] :
              g \in (in.mc_groups \ in'.mc_groups) \cup (in'.mc_groups \ in.mc_groups)}
    ELSE IF cycle.phase = "idle" /\ last'.op = "flows_for_lport"
    THEN {[key |-> RefKey("PORTBINDING", n, 0), start |-> begin_cycle(out)] :
              n \in {m \in DOMAIN in.port_bindings :
                          in.port_bindings[m] # in'.port_bindings[m]}}
    ELSE IF cycle.phase = "mc_groups" /\ last'.op = "changed_mc_groups"
    THEN {[key |-> RefKey("MC_GROUP", cycle.mc_group[1], cycle.mc_group[2]),
           start |-> out]}
    ELSE IF cycle.phase = "fallback" /\ last'.op = "changed_ref"
    THEN {[key |-> RefKey("ADDRSET", cycle.as_name, 0), start |-> out]}
    ELSE {}

\* Whether R has no bucket for the key, or only processed rows in it.
nothing_todo(o, key) ==
    \/ key \notin DOMAIN o.lfrr.ref_lflow_table
    \/ DOMAIN o.lfrr.ref_lflow_table[key] \subseteq o.lflows_processed

\* C14: a call of lflow_handle_changed_ref for a key that has no bucket in
\* R, or whose bucket holds only rows already processed in this iteration,
\* returns true, reports no change, and leaves the sink, R, the allocator,
\* the cache and the processed set as they were.
C14_NothingToDoFrame ==
    [][\A c \in RefHandlerCalls :
           nothing_todo(c.start, c.key) =>
               /\ last'.ret
               /\ ~last'.changed
               /\ out' = c.start]_vars

\* The multicast-group handler ran after the port-binding handler had
\* re-translated the only row of its bucket: nothing was done.
C14_Witness ==
    /\ last.op = "changed_mc_groups"
    /\ ~last.changed
    /\ RefKey("MC_GROUP", "p1", 1) \in DOMAIN out.lfrr.ref_lflow_table
    /\ DOMAIN out.lfrr.ref_lflow_table[RefKey("MC_GROUP", "p1", 1)] # {}
    /\ DOMAIN out.lfrr.ref_lflow_table[RefKey("MC_GROUP", "p1", 1)]
           \subseteq out.lflows_processed
    /\ McGroup("p1", 1) \in in.mc_groups

\* The rows lflow_handle_changed_ref re-translates for a key because they
\* reference it.
affected_rows(o, key) ==
    IF key \in DOMAIN o.lfrr.ref_lflow_table
    THEN lflows_todo(DOMAIN o.lfrr.ref_lflow_table[key], o.lflows_processed)
    ELSE {}

\* lflow_handle_changed_ref as it would run if the cache entries of the
\* rows that reference the key were deleted first.
changed_ref_invalidating(key, i, o) ==
    lflow_handle_changed_ref(
        key, i, [o EXCEPT !.lflow_cache = cache_delete_all(@, affected_rows(o, key))]).out

AddrSetAdditionHandled(as_name) ==
    /\ AddrSetUpdateHandled
    /\ in.addr_sets[as_name] \subseteq in'.addr_sets[as_name]
    /\ in.addr_sets[as_name] # in'.addr_sets[as_name]

\* What a handled addition does for a row on a datapath: r x k flows are
\* added, none is removed, the allocator is as it was, and the added flows
\* carry the conjunction id the row holds for the datapath.
addition_effect(as_name, r, dp) ==
    LET k == Cardinality(in'.addr_sets[as_name] \ in.addr_sets[as_name])
        ref_count == out.lfrr.ref_lflow_table[RefKey("ADDRSET", as_name, 0)][r]
        added == row_flows(out', r, dp) \ row_flows(out, r, dp)
    IN /\ Cardinality(added) = ref_count * k
       /\ row_flows(out, r, dp) \subseteq row_flows(out', r, dp)
       /\ out'.conj_ids = out.conj_ids
       /\ \A g \in added : \A c \in g.conjs :
              c.id = lflow_conj_ids_find(out.conj_ids, r, dp)

\* C16 (as stated): a handled addition of k addresses adds r x k flows for
\* every row that R records for the set with count r, on each local
\* datapath of the row.
C16_AdditionAddsRefCountTimesK ==
    [][\A as_name \in AddrSetNames :
           AddrSetAdditionHandled(as_name) =>
               \A r \in as_ref_rows(in', out, as_name) :
                   \A dp \in lflow_dps(r) \cap in'.local_datapaths :
                       addition_effect(as_name, r, dp)]_vars

\* C16 (amended): the same, for the rows that had flows on the datapath
\* before the update.
C16_AdditionForEmittingRow ==
    [][\A as_name \in AddrSetNames :
           AddrSetAdditionHandled(as_name) =>
               \A r \in as_ref_rows(in', out, as_name) :
                   \A dp \in lflow_dps(r) \cap in'.local_datapaths :
                       row_flows(out, r, dp) # {} => addition_effect(as_name, r, dp)]_vars

\* An address was added to the set on the fast path: the row with a
\* conjunction has one more clause flow on each of its two datapaths, under
\* the ids it held, and the row with the port has one more flow.
C16_Witness ==
    /\ last.op = "addr_set_update"
    /\ last.ret
    /\ last.changed
    /\ in.addr_sets["as1"] = {1, 2, 3}
    /\ {2, 7} \subseteq in.lflows
    /\ in.local_datapaths = {1, 2}
    /\ \A dp \in {1, 2} :
           \E g \in row_flows(out, 2, dp) :
               /\ g.m.src = 3
               /\ g.conjs = {Clause(lflow_conj_ids_find(out.conj_ids, 2, dp), 0)}
    /\ \E g \in row_flows(out, 7, 1) : g.m.src = 3

\* The mask the sink is to be given for an address: the mask of a network,
\* and for an address without one the full-length mask of its family.
full_length_mask(ip) ==
    LET c == expr_constant_of(ip)
    IN IF c.masked THEN c.mask
       ELSE CASE c.format = "LEX_F_IPV4" -> "255.255.255.255"
              [] c.format = "LEX_F_IPV6" -> "ffff:ffff:ffff:ffff:ffff:ffff:ffff:ffff"
              [] c.format = "LEX_F_ETHERNET" -> "ff:ff:ff:ff:ff:ff"

\* The removal the handler owes the sink for a row and a deleted address.
as_removal(o, as_name, r, ip) ==
    [lflow |-> r,
     as_info |-> [name |-> as_name, ip |-> ip, mask |-> full_length_mask(ip)],
     ref_count |-> o.lfrr.ref_lflow_table[RefKey("ADDRSET", as_name, 0)][r]]

\* A step of lflow_handle_addr_set_update that passes the preconditions and
\* only deletes addresses from the set.
AddrSetDeletionStep(as_name) ==
    /\ AddrSetUpdateStep(as_name)
    /\ ~AddrSetUpdateRefused(as_name)
    /\ in'.addr_sets[as_name] \subseteq in.addr_sets[as_name]

\* C17: on an address-set update that passes the preconditions and only
\* deletes addresses, every removal requested from the sink is the one owed
\* for a referencing row and a deleted address (row, set name, address,
\* mask, expected count = recorded ref_count) and none is requested twice;
\* when the update is handled every such removal was requested; no flow is
\* added; and a removal whose indexed flows are not as many as expected
\* makes the handler return unhandled.
C17_DeletionRequests ==
    [][\A as_name \in AddrSetNames :
           AddrSetDeletionStep(as_name) =>
               LET rows == as_ref_rows(in', out, as_name)
                   deleted == in.addr_sets[as_name] \ in'.addr_sets[as_name]
                   owed == {as_removal(out, as_name, r, ip) : r \in rows, ip \in deleted}
                   reqs == last'.as_reqs
               IN /\ \A i \in DOMAIN reqs : reqs[i] \in owed
                  /\ \A i, j \in DOMAIN reqs : reqs[i] = reqs[j] => i = j
                  /\ last'.ret => \A q \in owed : \E i \in DOMAIN reqs : reqs[i] = q
                  /\ out'.flow_table \subseteq out.flow_table
                  /\ (\E q \in owed :
                         ~ofctrl_remove_flows_for_as_ip(
                              out.flow_table, q.lflow, q.as_info, q.ref_count).ok)
                     => ~last'.ret]_vars

\* The IPv6 address was deleted from the set on the fast path: its removal
\* was requested for each of the two referencing rows with the 128-bit
\* mask and the expected count 1, and no flow of the address is left.
C17_Witness ==
    /\ last.op = "addr_set_update"
    /\ last.ret
    /\ in.addr_sets["as1"] = {1, 2}
    /\ {1, 2} \subseteq in.lflows
    /\ Len(last.as_reqs) = 2
    /\ \A r \in {1, 2} :
           \E i \in DOMAIN last.as_reqs :
               last.as_reqs[i] =
                   [lflow |-> r,
                    as_info |-> [name |-> "as1", ip |-> 3,
                                 mask |-> "ffff:ffff:ffff:ffff:ffff:ffff:ffff:ffff"],
                    ref_count |-> 1]
    /\ \E f \in out.flow_table : 1 \in f.owners
    /\ \E f \in out.flow_table : 2 \in f.owners
    /\ ~\E f \in out.flow_table : f.as_ip = 3

\* Whether the actions or the match of a row fail to parse.
parse_error(r) == ~lflow_table[r].actions_ok \/ ~lflow_table[r].match_ok

\* Whether the translation of a row needs a conjunction id (the address set
\* holds two addresses).
needs_conj_id(r) ==
    \/ lflow_table[r].sets >= 2
    \/ lflow_table[r].sets >= 1 /\ lflow_table[r].as # ""

\* Whether no conjunction id is free.
conj_ids_exhausted(o) == \A id \in 1..MaxConjId : conj_id_allocated(o.conj_ids, id)

\* The (row, datapath) pairs the step translates: all of them in a full
\* recompute, those of the added row, those of the datapath that became
\* local.
translated_in_step ==
    LET pairs(rows, dps) == {p \in rows \X dps : p[2] \in lflow_dps(p[1])}
    IN CASE last'.op = "run_full" -> pairs(in'.lflows, in'.local_datapaths)
         [] last'.op = "changed_flows" ->
                pairs(in'.lflows \ in.lflows, in'.local_datapaths)
         [] last'.op = "add_flows_for_datapath" ->
                pairs(in'.lflows, in'.local_datapaths \ in.local_datapaths)
         [] OTHER -> {}

\* C18: a row whose actions or match do not parse, or for which no
\* conjunction id is left, emits nothing for the datapath and gets no cache
\* entry, and the step goes on: every other row it translates is emitted,
\* a row that needs a conjunction id unless none is left.
C18_ErrorPolicy ==
    [][\A p \in translated_in_step :
           LET r == p[1]
               dp == p[2]
               skipped == /\ row_flows(out', r, dp) = {}
                          /\ lflow_cache_get(out'.lflow_cache, r).type = "NONE"
           IN IF parse_error(r) THEN skipped
              ELSE IF ~needs_conj_id(r) THEN row_flows(out', r, dp) # {}
              ELSE \/ /\ row_flows(out', r, dp) # {}
                      /\ lflow_conj_ids_find(out'.conj_ids, r, dp) # 0
                   \/ /\ skipped
                      /\ lflow_conj_ids_find(out'.conj_ids, r, dp) = 0
                      /\ conj_ids_exhausted(out')]_vars

\* A full recompute ran out of conjunction ids: the last row that needs one
\* has no flow on the second datapath and no cache entry, while the rows
\* before it are emitted on both datapaths and cached.
C18_Witness ==
    /\ last.op = "run_full"
    /\ in.lflows = {3, 10, 11, 12}
    /\ in.local_datapaths = {1, 2}
    /\ conj_ids_exhausted(out)
    /\ \E dp \in {1, 2} : row_flows(out, 12, dp) = {}
    /\ lflow_cache_get(out.lflow_cache, 12).type = "NONE"
    /\ \A r \in {3, 10, 11} : \A dp \in {1, 2} : row_flows(out, r, dp) # {}

\* The id a load balancer of the table is emitted with: the one stored under
\* its name.
lb_id(u) == simap_get(out.hairpin_lb_ids, in.lb_table[u].name)

\* C19: every load balancer of the table has a nonzero id stored under its
\* name, two load balancers have different ids, and the ids allocated in
\* the pool are the ids stored in the name map.
C19_LbIdsUnique ==
    /\ \A u \in DOMAIN in.lb_table : lb_id(u) # 0
    /\ \A u1, u2 \in DOMAIN in.lb_table : u1 # u2 => lb_id(u1) # lb_id(u2)
    /\ out.hairpin_id_pool =
           {out.hairpin_lb_ids[n] : n \in DOMAIN out.hairpin_lb_ids}

\* The rules of the sink owned by a row of an adjunct table.
owned(ft, uuid) == {g \in ft : uuid \in g.owners}

\* What a handler of an adjunct table leaves for the rows tracked between
\* the table t and the table t2: no rule of a deleted row, and for a new or
\* updated row the rules lflow_run emits for it on the same input.
tracked_settled(t, t2) ==
    /\ \A u \in (DOMAIN t) \ (DOMAIN t2) : owned(out'.flow_table, u) = {}
    /\ \A u \in DOMAIN t2 :
           (u \notin DOMAIN t \/ t[u] # t2[u]) =>
               owned(out'.flow_table, u) =
                   owned(lflow_run_adjuncts(in', [out' EXCEPT !.flow_table = {}]).flow_table,
                         u)

\* The priority of the rules of the MAC bindings: 100 for a learnt one, 150
\* or 50 for a static one, by its override flag.
neighbor_priorities ==
    /\ \A u \in DOMAIN in'.mac_binding_table :
           \A g \in owned(out'.flow_table, u) : g.m.priority = 100
    /\ \A u \in DOMAIN in'.static_mac_binding_table :
           \A g \in owned(out'.flow_table, u) :
               g.m.priority = IF in'.static_mac_binding_table[u].override_dynamic_mac
                              THEN 150 ELSE 50

\* C20, for the handlers of the MAC bindings, the static MAC bindings and
\* the FDB entries.
C20_NeighborsAndFdbsSettled ==
    [][/\ tracked_settled(in.mac_binding_table, in'.mac_binding_table)
       /\ tracked_settled(in.static_mac_binding_table, in'.static_mac_binding_table)
       /\ tracked_settled(in.fdb_table, in'.fdb_table)
       /\ neighbor_priorities]_vars

\* C20: after lflow_handle_changed_mac_bindings,
\* lflow_handle_changed_static_mac_bindings, lflow_handle_changed_fdbs or
\* lflow_handle_changed_lbs the sink holds no rule of a deleted row, and for
\* a new or updated row exactly the rules lflow_run emits for its current
\* version, at priority 100 for a learnt MAC binding and 150 or 50 for a
\* static one.
C20_TrackedSettled ==
    [][/\ tracked_settled(in.mac_binding_table, in'.mac_binding_table)
       /\ tracked_settled(in.static_mac_binding_table, in'.static_mac_binding_table)
       /\ tracked_settled(in.fdb_table, in'.fdb_table)
       /\ tracked_settled(in.lb_table, in'.lb_table)
       /\ neighbor_priorities]_vars

\* ------------------------------------------------------------------ C21

\* The triple (key, row) is in R: the row is in the bucket of the reference.
lfrr_has(l, key, lflow) ==
    /\ key \in DOMAIN l.ref_lflow_table
    /\ lflow \in DOMAIN l.ref_lflow_table[key]

\* C21: lflow_resource_add of a (kind, name, row) that is already present
\* returns R unchanged on both sides, whatever ref_count it is called with;
\* the stored ref_count stays the one of the first add.
C21_AddIdempotent ==
    \A key \in RefKeys, lflow \in RefRows, ref_count \in 0..2 :
        lfrr_has(out.lfrr, key, lflow) =>
            lflow_resource_add(out.lfrr, key, lflow, ref_count) = out.lfrr

\* C21 witness: a lflow_resource_add changed nothing while R holds the same
\* reference for two rows under different counts, so that the repeated add
\* differed from the stored count for one of them.
C21_Witness ==
    /\ last.op = "resource_add"
    /\ ~last.changed
    /\ \E key \in DOMAIN out.lfrr.ref_lflow_table :
           /\ DOMAIN out.lfrr.ref_lflow_table[key] = RefRows
           /\ out.lfrr.ref_lflow_table[key][1] # out.lfrr.ref_lflow_table[key][2]

\* ------------------------------------------------------------------ C22

\* No reference has an empty bucket and no row has an empty reference list.
lfrr_no_empty(l) ==
    /\ \A key \in DOMAIN l.ref_lflow_table : DOMAIN l.ref_lflow_table[key] # {}
    /\ \A r \in DOMAIN l.lflow_ref_table : l.lflow_ref_table[r] # <<>>

\* The entries of row r in l2 are those of l, on both sides.
lfrr_same_row(l, l2, r) ==
    /\ (r \in DOMAIN l2.lflow_ref_table) = (r \in DOMAIN l.lflow_ref_table)
    /\ r \in DOMAIN l.lflow_ref_table => l2.lflow_ref_table[r] = l.lflow_ref_table[r]
    /\ \A key \in RefKeys :
           /\ lfrr_has(l2, key, r) = lfrr_has(l, key, r)
           /\ lfrr_has(l, key, r) =>
                  l2.ref_lflow_table[key][r] = l.ref_lflow_table[key][r]

\* C22: lflow_resource_destroy_lflow(row) leaves no entry of the row in the
\* row->refs map nor in any ref->rows bucket, leaves no empty bucket, and
\* keeps the entries and ref_counts of every other row; no reachable state
\* has an empty ref->rows bucket or a row with an empty reference list.
C22_ForgetRow ==
    /\ lfrr_no_empty(out.lfrr)
    /\ \A lflow \in RefRows :
           LET forgotten(l2) ==
                   /\ lflow \notin DOMAIN l2.lflow_ref_table
                   /\ \A key \in DOMAIN l2.ref_lflow_table : ~lfrr_has(l2, key, lflow)
                   /\ DOMAIN l2.ref_lflow_table \subseteq DOMAIN out.lfrr.ref_lflow_table
                   /\ lfrr_no_empty(l2)
                   /\ \A r \in RefRows \ {lflow} : lfrr_same_row(out.lfrr, l2, r)
           IN forgotten(lflow_resource_destroy_lflow(out.lfrr, lflow))

\* C22 witness: a row was forgotten with its references, while the other row
\* keeps its single reference with count 1 in the only bucket that is left.
C22_Witness ==
    /\ last.op = "resource_destroy_lflow"
    /\ last.changed
    /\ DOMAIN out.lfrr.lflow_ref_table = {1}
    /\ Len(out.lfrr.lflow_ref_table[1]) = 1
    /\ out.lfrr.lflow_ref_table[1][1].ref_count = 1
    /\ Cardinality(DOMAIN out.lfrr.ref_lflow_table) = 1

\* ------------------------------------------------------------------ C23

\* The row has an ADDRSET or a PORTGROUP entry in R.
pg_addr_set_entry(l, r) ==
    \E key \in DOMAIN l.ref_lflow_table :
        /\ key.type \in {"ADDRSET", "PORTGROUP"}
        /\ r \in DOMAIN l.ref_lflow_table[key]

\* C23: a row that has a cache entry, of expression or of matches, has no
\* ADDRSET and no PORTGROUP entry in R, and its match names no address set
\* and no port group.
C23_CachePlacement ==
    \A r \in Rows :
        lflow_cache_get(out.lflow_cache, r).type # "NONE" =>
            /\ ~pg_addr_set_entry(out.lfrr, r)
            /\ lflow_table[r].as = ""
            /\ lflow_table[r].pg = ""

\* C23 witness: with the cache enabled, a row that names a port group or an
\* address set was translated and emitted, and has its entry in R and none
\* in the cache, while a row in the same table is cached.
C23_Witness ==
    /\ lflow_cache_is_enabled(out.lflow_cache)
    /\ \E r \in in.lflows :
           /\ pg_addr_set_entry(out.lfrr, r)
           /\ \E f \in out.flow_table : r \in f.owners
           /\ lflow_cache_get(out.lflow_cache, r).type = "NONE"
    /\ \E r \in in.lflows : lflow_cache_get(out.lflow_cache, r).type # "NONE"

\* ------------------------------------------------------------------ C24

\* The rows a step translates from their match text with the cache enabled:
\* they had no cache entry when the step began.
translated_uncached ==
    {r \in {p[1] : p \in translated_in_step} :
         /\ lflow_cache_is_enabled(out.lflow_cache)
         /\ lflow_cache_get(out.lflow_cache, r).type = "NONE"}

\* Whether the translation of the row in this step produced matches for one
\* of the datapaths it was translated for.
produced_matches(r) ==
    \E p \in translated_in_step : p[1] = r /\ row_matches(in', out', r, p[2]) # {}

\* The entry is a MATCHES entry of the row: the matches of the datapath it
\* was written for, with the base and the number of their conjunctions.
matches_entry(e, r) ==
    LET em == expr_to_matches(convert_match_to_expr(r, in', lfrr_empty).expr,
                              in', lfrr_empty, r, e.dp)
    IN /\ e.type = "MATCHES"
       /\ e.n_conjs = em.n_conjs
       /\ e.conj_id_ofs = lflow_conj_ids_find(out'.conj_ids, r, e.dp)
       /\ e.n_conjs > 0 => e.conj_id_ofs # 0
       /\ {x.m : x \in e.expr_matches} = row_matches(in', out', r, e.dp)

\* C24 as stated: after an uncached row was translated with the cache
\* enabled, it has a MATCHES entry with the base and count of the translation
\* if it has no R entry and produced matches, and an EXPR entry in every
\* other case.
C24_CacheWriteAlways ==
    [][\A r \in translated_uncached :
           IF ~lflow_ref_lookup(out'.lfrr.lflow_ref_table, r) /\ produced_matches(r)
           THEN matches_entry(lflow_cache_get(out'.lflow_cache, r), r)
           ELSE lflow_cache_get(out'.lflow_cache, r).type = "EXPR"]_vars

\* C24 amended: the cache is written only when the translation reached the
\* emission.  A row that produced matches has a MATCHES entry with the base
\* and count of the translation if it has no R entry, an EXPR entry holding
\* the expression parsed from its match if it has R entries but names no
\* address set and no port group, and no entry if it names one; a row that
\* produced no matches has no entry.
C24_CacheWrite ==
    [][\A r \in translated_uncached :
           LET e == lflow_cache_get(out'.lflow_cache, r)
           IN IF ~produced_matches(r) THEN e.type = "NONE"
              ELSE IF ~lflow_ref_lookup(out'.lfrr.lflow_ref_table, r)
              THEN matches_entry(e, r)
              ELSE IF pg_addr_set_entry(out'.lfrr, r) THEN e.type = "NONE"
              ELSE /\ e.type = "EXPR"
                   /\ e.expr = <<convert_match_to_expr(r, in', lfrr_empty).expr>>]_vars

\* C24 witness: a step translated uncached rows with the cache enabled and
\* left one with a MATCHES entry that holds conjunctions and another with
\* an EXPR entry.
C24_Witness ==
    /\ last.op \in {"run_full", "changed_flows", "add_flows_for_datapath"}
    /\ \E r \in in.lflows :
           /\ lflow_cache_get(out.lflow_cache, r).type = "MATCHES"
           /\ lflow_cache_get(out.lflow_cache, r).n_conjs > 0
    /\ \E r \in in.lflows : lflow_cache_get(out.lflow_cache, r).type = "EXPR"

\* ------------------------------------------------------------------ C25

\* The conjunction ids a flow carries: in its clauses and in its match.
flow_conj_ids(f) == {c.id : c \in f.conjs} \cup ({f.m.conj_id} \ {0})

\* The ids of the slice the allocator holds for the row and the datapath.
slice_ids(o, r, dp) ==
    UNION {a.start..(a.start + a.n - 1) :
               a \in {b \in o.conj_ids : b.lflow = r /\ b.dp = dp}}

\* Every flow of the row on the datapath that carries conjunction ids
\* carries one of the slice of (row, datapath), and every id it carries is
\* of the slice of one of its owners.
flows_use_held_ids(o, r, dp) ==
    \A f \in row_flows(o, r, dp) :
        /\ flow_conj_ids(f) # {} => flow_conj_ids(f) \cap slice_ids(o, r, dp) # {}
        /\ \A id \in flow_conj_ids(f) :
               \E r2 \in f.owners : id \in slice_ids(o, r2, dp)

\* C25: when a step translates a row whose cache entry holds matches with
\* conjunctions, then for each datapath it is translated for: either the
\* row holds a slice for the datapath, its flows are its matches under the
\* ids of that slice, and the slice is the recorded one or else the entry
\* was replaced by one whose slice is held (or deleted, when the ids ran out
\* for another datapath of the row); or no id could be allocated, and the
\* row has no flow on the datapath and no cache entry.  No flow of the row
\* carries an id outside the slices its owners hold.
C25_CacheProbe ==
    [][\A p \in translated_in_step :
           LET r == p[1]
               dp == p[2]
               lcv == lflow_cache_get(out.lflow_cache, r)
               e == lflow_cache_get(out'.lflow_cache, r)
               start == lflow_conj_ids_find(out'.conj_ids, r, dp)
           IN cached_with_conjs(out, r) =>
                  IF start = 0
                  THEN /\ row_flows(out', r, dp) = {}
                       /\ e.type = "NONE"
                       /\ conj_ids_exhausted(out')
                  ELSE /\ row_flows(out', r, dp) # {}
                       /\ {f.m : f \in row_flows(out', r, dp)} =
                              row_matches(in', out', r, dp)
                       /\ flows_use_held_ids(out', r, dp)
                       /\ \/ start = lcv.conj_id_ofs
                          \/ /\ e.type = "MATCHES"
                             /\ e.conj_id_ofs # lcv.conj_id_ofs
                             /\ cached_slice_held(out', r, e.dp)
                          \/ /\ e.type = "NONE"
                             /\ conj_ids_exhausted(out')]_vars

\* C25 witness: a full recompute served a datapath-group row from cached
\* matches for its first datapath, could not reserve the recorded slice for
\* the second, and left the row with flows on both datapaths under two
\* slices and an entry that records the fresh one.
C25_Witness ==
    /\ last.op = "run_full"
    /\ \E r \in in.lflows :
           /\ cached_with_conjs(out, r)
           /\ lflow_cache_get(out.lflow_cache, r).dp = 2
           /\ cached_slice_held(out, r, 2)
           /\ lflow_conj_ids_find(out.conj_ids, r, 1) \notin
                  {0, lflow_conj_ids_find(out.conj_ids, r, 2)}
           /\ row_flows(out, r, 1) # {}
           /\ row_flows(out, r, 2) # {}

\* ------------------------------------------------------------------ C26

\* The additions to an address set that pass as_update_can_be_handled.
as_additions(as_name) ==
    {added \in SUBSET (Addrs \ in.addr_sets[as_name]) :
         /\ added # {}
         /\ as_update_can_be_handled(
                as_name, Cardinality(added), 0,
                [in EXCEPT !.addr_sets[as_name] = @ \cup added])}

\* The rows the fast path visits for the address set: those of its bucket
\* that are in the table.
as_bucket_rows(as_name) ==
    IF ref_lflow_lookup(out.lfrr.ref_lflow_table, RefKey("ADDRSET", as_name, 0))
    THEN DOMAIN out.lfrr.ref_lflow_table[RefKey("ADDRSET", as_name, 0)] \cap in.lflows
    ELSE {}

\* The expansion of the row against the added addresses alone, padded with
\* the dummy when there is one address: [n_conjs, produced, kept], kept
\* being the matches that survive the discard.
added_expansion(r, dp, as_name, added) ==
    LET has_dummy_ip == Cardinality(added) = 1
        dummy == dummy_ip(CHOOSE x \in added : TRUE)
        fake_as == IF has_dummy_ip THEN added \cup {dummy} ELSE added
        expansion(em) ==
            [n_conjs |-> em.n_conjs, produced |-> em.matches,
             kept |-> {x \in em.matches :
                          ~as_match_discarded(x, as_name, has_dummy_ip, dummy)}]
    IN expansion(expr_to_matches(
                     convert_match_to_expr(
                         r, [in EXCEPT !.addr_sets[as_name] = fake_as], lfrr_empty).expr,
                     in, lfrr_empty, r, dp))

\* The fast path for (row, datapath) returned unhandled, added no flow and
\* allocated no conjunction id.
fell_back(res) ==
    /\ ~res.handled
    /\ res.out.flow_table = out.flow_table
    /\ res.out.conj_ids = out.conj_ids

\* Whether the fast path has to fall back on the expansion x: the number of
\* surviving matches is not ref_count times the number of added addresses,
\* or there are conjunctions and the row holds no slice for the datapath.
must_fall_back(x, r, dp, ref_count, added) ==
    \/ Cardinality(x.kept) # ref_count * Cardinality(added)
    \/ x.n_conjs > 0 /\ lflow_conj_ids_find(out.conj_ids, r, dp) = 0

\* C26 as stated: whenever the number of surviving matches differs from
\* ref_count x |added|, or the expansion has conjunctions and the row holds
\* no slice for the datapath, the fast path returns unhandled for the row
\* and the datapath, adds no flow and allocates no conjunction id.
C26_FallsBackOnAnyMismatch ==
    cycle.phase = "idle" =>
        \A as_name \in AddrSetNames : \A added \in as_additions(as_name) :
            \A r \in as_bucket_rows(as_name) :
                \A dp \in lflow_dps(r) \cap in.local_datapaths :
                    LET ref_count ==
                            out.lfrr.ref_lflow_table[RefKey("ADDRSET", as_name, 0)][r]
                        i2 == [in EXCEPT !.addr_sets[as_name] = @ \cup added]
                    IN must_fall_back(added_expansion(r, dp, as_name, added),
                                      r, dp, ref_count, added) =>
                           fell_back(consider_lflow_for_added_as_ips__(
                                         r, dp, as_name, ref_count, added, i2, out))

\* C26 amended: when the expansion against the added addresses produced at
\* least one match, and the number of surviving matches differs from
\* ref_count x |added| or there are conjunctions and the row holds no slice
\* for the datapath, the fast path returns unhandled for the row and the
\* datapath, adds no flow and allocates no conjunction id; when the
\* expansion produced no match at all, it returns handled, and also adds no
\* flow and allocates no id.
C26_FallsBackOnMismatch ==
    cycle.phase = "idle" =>
        \A as_name \in AddrSetNames : \A added \in as_additions(as_name) :
            \A r \in as_bucket_rows(as_name) :
                \A dp \in lflow_dps(r) \cap in.local_datapaths :
                    LET ref_count ==
                            out.lfrr.ref_lflow_table[RefKey("ADDRSET", as_name, 0)][r]
                        i2 == [in EXCEPT !.addr_sets[as_name] = @ \cup added]
                        verdict(x, res) ==
                            /\ (x.produced # {}
                                /\ must_fall_back(x, r, dp, ref_count, added))
                                   => fell_back(res)
                            /\ x.produced = {} =>
                                   /\ res.handled
                                   /\ res.out.flow_table = out.flow_table
                                   /\ res.out.conj_ids = out.conj_ids
                    IN verdict(added_expansion(r, dp, as_name, added),
                               consider_lflow_for_added_as_ips__(
                                   r, dp, as_name, ref_count, added, i2, out))

\* C26 witness: an addition passed as_update_can_be_handled and was handed
\* back by the fast path without any removal having been requested, while
\* the row that joins the address set with a constant, or the conjunctive
\* row that holds no slice for a local datapath, is in the bucket.
C26_Witness ==
    /\ last.op = "addr_set_update"
    /\ ~last.ret
    /\ last.changed
    /\ last.as_reqs = <<>>
    /\ \/ 15 \in as_bucket_rows("as1")
       \/ /\ 2 \in as_bucket_rows("as1")
          /\ \E dp \in Datapaths : lflow_conj_ids_find(out.conj_ids, 2, dp) = 0

\* ------------------------------------------------------------------- C27

\* Every entry of R in l is in l2 with the same ref_count, on both sides.
lfrr_kept(l, l2) ==
    /\ \A key \in DOMAIN l.ref_lflow_table :
       \A r \in DOMAIN l.ref_lflow_table[key] :
           /\ lfrr_has(l2, key, r)
           /\ l2.ref_lflow_table[key][r] = l.ref_lflow_table[key][r]
    /\ \A r \in DOMAIN l.lflow_ref_table :
           /\ r \in DOMAIN l2.lflow_ref_table
           /\ \A i \in DOMAIN l.lflow_ref_table[r] :
                  /\ i \in DOMAIN l2.lflow_ref_table[r]
                  /\ l2.lflow_ref_table[r][i] = l.lflow_ref_table[r][i]

\* C27: whatever lflow_handle_addr_set_update returns, and on whatever path
\* it leaves a row (datapath not local, match not parsed, no matches, count
\* mismatch, no conjunction ids, flows emitted), the address-set map it
\* leaves behind binds every name to the set it was called with; the cache,
\* the processed rows and the conjunction ids are those of the call; and
\* every entry of R is still there with its ref_count.  Checked in every
\* idle state for every update of an address set the catalogue uses.
C27_FastPathFrame ==
    cycle.phase = "idle" =>
        \A name \in AddrSetNames, new \in SUBSET Addrs, deleted \in DeletedWith :
            (uses_addr_set(catalogue, name) /\ new # in.addr_sets[name]) =>
                LET frame(i2, o, h) ==
                        /\ h.addr_sets = i2.addr_sets
                        /\ h.out.lflow_cache = o.lflow_cache
                        /\ h.out.lflows_processed = o.lflows_processed
                        /\ h.out.conj_ids = o.conj_ids
                        /\ lfrr_kept(o.lfrr, h.out.lfrr)
                    call(i2, o) ==
                        frame(i2, o,
                              lflow_handle_addr_set_update(
                                  name, new \ in.addr_sets[name],
                                  in.addr_sets[name] \ new, i2, o))
                IN call([in EXCEPT !.addr_sets[name] = new, !.lflows = @ \ deleted],
                        begin_cycle(out))

\* An address-set update has just fallen back on an addition (no removal
\* was requested from the sink) because of row 15, whose matches are not
\* counted as the added addresses, while row 13 is cached and the address
\* set is referenced in R.
C27_Witness ==
    /\ last.op = "addr_set_update"
    /\ last.changed
    /\ ~last.ret
    /\ last.as_reqs = <<>>
    /\ 15 \in in.lflows
    /\ lfrr_has(out.lfrr, RefKey("ADDRSET", "as1", 0), 15)
    /\ lflow_cache_get(out.lflow_cache, 13).type = "MATCHES"

\* ------------------------------------------------------------------- C28

\* C28: when exactly one address is added, the value the fake set is padded
\* with is a byte other than the added one (255 is padded with 0), so the
\* fake set has two values; and every flow lflow_handle_addr_set_update
\* adds to the sink is annotated with the updated address set and with one
\* of the added addresses, which it matches: none carries the padding
\* value.  Checked in every idle state for every addition to the set.
C28_SyntheticPadding ==
    cycle.phase = "idle" =>
        \A name \in AddrSetNames :
        \A added \in (SUBSET (WrapAddrs \ in.addr_sets[name])) \ {{}} :
            LET one == Cardinality(added) = 1
                emitted(h) == h.out.flow_table \ out.flow_table
            IN /\ one => \A a \in added :
                             /\ dummy_ip(a) \in (0..255) \ {a}
                             /\ Cardinality({a, dummy_ip(a)}) = 2
               /\ \A f \in emitted(lflow_handle_addr_set_update(
                                       name, added, {},
                                       [in EXCEPT !.addr_sets[name] = @ \cup added],
                                       begin_cycle(out))) :
                      /\ f.as_name = name
                      /\ f.as_ip \in added
                      /\ f.m.src = f.as_ip
                      /\ one => \A a \in added : dummy_ip(a) \notin {f.as_ip, f.m.src}

\* The address 255 was added alone to {1, 2} by a handled update; rows 1
\* and 2 have a flow for it, and no flow matches the padding value 0 as an
\* address of the set.
C28_Witness ==
    /\ last.op = "addr_set_update"
    /\ last.ret
    /\ last.changed
    /\ in.addr_sets["as1"] = {1, 2, 255}
    /\ \A r \in {1, 2} :
           \E f \in out.flow_table :
               r \in f.owners /\ f.as_name = "as1" /\ f.as_ip = 255 /\ f.m.src = 255
    /\ ~\E f \in out.flow_table : f.as_name = "as1" /\ f.as_ip = 0

\* ------------------------------------------------------------------- C29

\* C29: after every step, a row in the table that carries an in_out_port
\* tag has, if one of its datapaths is local, the reference (PORTBINDING,
\* tag) in R, whether or not the port has a binding; and on a local datapath
\* for which the port has no binding, or the key of the datapath and the
\* port is not among the related ports, the row has no flow and no
\* conjunction id, and the step has left its cache entry as it was.
C29_InOutPortGate ==
    [][\A r \in in'.lflows : \A dp \in lflow_dps(r) \cap in'.local_datapaths :
           lflow_table[r].io_port # "" =>
               /\ lfrr_has(out'.lfrr,
                           RefKey("PORTBINDING", lflow_table[r].io_port, 0), r)
               /\ (\/ lflow_table[r].io_port \notin DOMAIN in'.port_bindings
                   \/ <<dp, in'.port_bindings[lflow_table[r].io_port].tunnel_key>>
                          \notin in'.related_lport_ids) =>
                      /\ row_flows(out', r, dp) = {}
                      /\ lflow_conj_ids_find(out'.conj_ids, r, dp) = 0
                      /\ lflow_cache_get(out'.lflow_cache, r) =
                             lflow_cache_get(out.lflow_cache, r)]_vars

\* The port of the tagged rows 16 and 17 has just been bound on datapath 1,
\* which is local, while its key is not among the related ports: the rows
\* were reprocessed through their reference, and have no flow, no
\* conjunction id and, with the cache enabled, no cache entry.
C29_Witness ==
    /\ last.op = "changed_port_bindings"
    /\ last.changed
    /\ {16, 17} \subseteq in.lflows
    /\ 1 \in in.local_datapaths
    /\ "p1" \in DOMAIN in.port_bindings
    /\ in.port_bindings["p1"].datapath = 1
    /\ <<1, 1>> \notin in.related_lport_ids
    /\ lflow_cache_is_enabled(out.lflow_cache)
    /\ \A r \in {16, 17} :
           /\ lfrr_has(out.lfrr, RefKey("PORTBINDING", "p1", 0), r)
           /\ row_flows(out, r, 1) = {}
           /\ lflow_conj_ids_find(out.conj_ids, r, 1) = 0
           /\ lflow_cache_get(out.lflow_cache, r).type = "NONE"

\* ------------------------------------------------------------------- C30

\* The port has a binding on the datapath.
port_bound_on(name, dp) ==
    name \in DOMAIN in.port_bindings /\ in.port_bindings[name].datapath = dp

\* C30: on a switch, no flow in the sink that a row of an ingress table
\* owns pins a logical inport, and no flow that a row of an egress table
\* owns pins a logical outport, whose (datapath, port) key is not among the
\* related ports.  Nothing else is filtered: a row in the table that pins
\* its bound port on the router (19), or as inport in an egress table (20),
\* or pins no port (13), has flows on its local datapath whatever the
\* related ports are.
C30_LocalPortFilter ==
    /\ \A f \in out.flow_table : \A r \in f.owners :
           is_switch(f.dp) =>
               /\ (lflow_table[r].pipeline = "ingress" /\ f.m.inport # 0) =>
                      <<f.dp, f.m.inport>> \in in.related_lport_ids
               /\ (lflow_table[r].pipeline = "egress" /\ f.m.outport # 0) =>
                      <<f.dp, f.m.outport>> \in in.related_lport_ids
    /\ \A r \in in.lflows \cap {13, 19, 20} :
       \A dp \in lflow_dps(r) \cap in.local_datapaths :
           (lflow_table[r].port # "" => port_bound_on(lflow_table[r].port, dp)) =>
               row_flows(out, r, dp) # {}

\* The port is bound on switch 1 and its key is not related: of the rows
\* that pin it, the ingress row on inport (4) and the egress row on outport
\* (18) have no flow, and the egress row on inport (20) has one that pins
\* the port.
C30_Witness ==
    /\ {4, 18, 20} \subseteq in.lflows
    /\ 1 \in in.local_datapaths
    /\ port_bound_on("p1", 1)
    /\ <<1, 1>> \notin in.related_lport_ids
    /\ row_flows(out, 4, 1) = {}
    /\ row_flows(out, 18, 1) = {}
    /\ \E f \in row_flows(out, 20, 1) : f.m.inport = 1 /\ f.m.outport = 0


\* ------------------------------------ several handlers in one iteration

\* The rows of a run: a row bound to a datapath group that uses the address
\* set, a row bound to the group that does not, and a row bound to datapath
\* 1 alone; the conjunctive clause flows of the three coincide, the
\* conjunction ids the allocator tries first for them do not.
CataloguesC == {{2, 3, 22}}

\* The values the address set takes.
AddrSetsC == {{1, 2}, {1, 2, 3}}

InitC ==
    /\ catalogue \in CataloguesC
    /\ in = [lflows |-> {}, port_bindings |-> EmptyFn, mc_groups |-> {},
             addr_sets |-> [n \in AddrSetNames |-> {1, 2}],
             local_datapaths |-> {}, related_lport_ids |-> {}]
    /\ \E enabled \in BOOLEAN : out = out_empty(lflow_cache_new(enabled))
    /\ cycle = Idle
    /\ last = Last("init", TRUE, FALSE)

\* The next engine iteration begins.
NewIteration ==
    /\ cycle.phase = "idle"
    /\ out.lflows_processed # {}
    /\ out' = begin_cycle(out)
    /\ last' = Last("begin", TRUE, FALSE)
    /\ UNCHANGED <<in, catalogue, cycle>>

\* A row is added, deleted or updated, and the iteration handles it at
\* once: lflow_handle_changed_flows, lflow_handle_cached_flows.
RowChangeInCycle ==
    /\ \E r \in catalogue, gone \in BOOLEAN :
           /\ gone => r \in in.lflows
           /\ in' = [in EXCEPT !.lflows = IF gone THEN @ \ {r} ELSE @ \cup {r}]
           /\ LET o == lflow_handle_changed_flows({r}, {r} \ in.lflows, in', out)
              IN out' = [o EXCEPT !.lflow_cache =
                                      lflow_handle_cached_flows(@, {r}, in')]
    /\ last' = Last("changed_flows", TRUE, TRUE)
    /\ UNCHANGED <<catalogue, cycle>>

\* The address set changes and the iteration handles it through
\* lflow_handle_changed_ref.
AddrSetChangeInCycle ==
    /\ \E name \in AddrSetNames : \E new \in AddrSetsC \ {in.addr_sets[name]} :
           /\ in' = [in EXCEPT !.addr_sets[name] = new]
           /\ \E h \in {lflow_handle_changed_ref(RefKey("ADDRSET", name, 0), in', out)} :
                  /\ out' = h.out
                  /\ last' = Last("changed_ref", h.ret, h.changed)
    /\ UNCHANGED <<catalogue, cycle>>

\* A datapath becomes local in the iteration: lflow_add_flows_for_datapath.
DatapathAddInCycle ==
    /\ cycle.phase = "idle"
    /\ \E dp \in Datapaths \ in.local_datapaths :
           /\ in' = [in EXCEPT !.local_datapaths = @ \cup {dp}]
           /\ out' = lflow_add_flows_for_datapath(dp, in', out)
    /\ last' = Last("add_flows_for_datapath", TRUE, TRUE)
    /\ UNCHANGED <<catalogue, cycle>>

NextC ==
    \/ RunFull
    \/ NewIteration
    \/ RowChangeInCycle
    \/ AddrSetChangeInCycle
    \/ DatapathAddInCycle

SpecC == InitC /\ [][NextC]_vars


\* ------------------------------------------------------------------ C35

\* The rows a handler call with the given lflows_todo flood-removes and
\* translates again: the rows still in the table among the owners reached.
retranslated(i, o, todo) == flood_remove_nodes(o.flow_table, todo) \cap i.lflows

\* C35: processed-set discipline.  However lflow_handle_changed_flows,
\* lflow_handle_changed_ref and lflow_add_flows_for_datapath were called
\* before in the iteration, the assertion of consider_logical_flow has not
\* failed, and a further call of lflow_handle_changed_flows (for any row)
\* or of lflow_handle_changed_ref (for any key) does not make it fail, also
\* when the flood-removal pulls in rows that are already in
\* lflows_processed; after the call every row it translated again is in
\* lflows_processed.
C35_ProcessedOnEntry ==
    /\ ~out.assert_failed
    /\ \A r \in catalogue :
           \E o \in {lflow_handle_changed_flows({r}, {}, in, out)} :
               /\ ~o.assert_failed
               /\ retranslated(in, out, {r} \ out.lflows_processed)
                      \subseteq o.lflows_processed
    /\ \A key \in DOMAIN out.lfrr.ref_lflow_table :
           \E h \in {lflow_handle_changed_ref(key, in, out)} :
               /\ ~h.out.assert_failed
               /\ retranslated(in, out, DOMAIN out.lfrr.ref_lflow_table[key]
                                            \ out.lflows_processed)
                      \subseteq h.out.lflows_processed

\* lflow_add_flows_for_datapath translated row 22 and marked it processed;
\* a call for row 3, which is not marked, pulls row 22 in.
C35_Witness ==
    /\ last.op = "add_flows_for_datapath"
    /\ \E r \in in.lflows \ out.lflows_processed :
           retranslated(in, out, {r}) \cap out.lflows_processed # {}
    /\ \E key \in DOMAIN out.lfrr.ref_lflow_table :
           /\ DOMAIN out.lfrr.ref_lflow_table[key] \cap out.lflows_processed = {}
           /\ retranslated(in, out, DOMAIN out.lfrr.ref_lflow_table[key])
                  \cap out.lflows_processed # {}


\* ------------------------------------------------------------------ C32

\* C32: handler idempotence within an iteration.  After
\* lflow_handle_changed_flows ran for a tracked row (new, updated or
\* deleted), a second call with the same tracked row in the same iteration
\* translates no row again and leaves the sink, R, the conjunction ids, the
\* cache and lflows_processed as the first call left them; the same for a
\* second call of lflow_handle_changed_ref with the same key, which reports
\* that nothing changed.
C32_HandlerIdempotent ==
    /\ \A r \in catalogue, new \in BOOLEAN :
           (new => r \in in.lflows) =>
               \E o1 \in {lflow_handle_changed_flows(
                              {r}, IF new THEN {r} ELSE {}, in, out)} :
                   /\ retranslated(in, o1, {r} \ o1.lflows_processed) = {}
                   /\ lflow_handle_changed_flows(
                          {r}, IF new THEN {r} ELSE {}, in, o1) = o1
    /\ \A key \in DOMAIN out.lfrr.ref_lflow_table :
           \E h1 \in {lflow_handle_changed_ref(key, in, out)} :
               \E h2 \in {lflow_handle_changed_ref(key, in, h1.out)} :
                   /\ h2.ret
                   /\ ~h2.changed
                   /\ h2.out = h1.out

\* The first call has work to do: lflow_handle_changed_ref translates the
\* rows of a bucket again, and lflow_handle_changed_flows a present row and
\* a row pulled in with it; another tracked row has been deleted.
C32_Witness ==
    /\ \E key \in DOMAIN out.lfrr.ref_lflow_table :
           /\ lflow_handle_changed_ref(key, in, out).changed
           /\ lflow_handle_changed_ref(key, in, out).out # out
    /\ \E r \in in.lflows \ out.lflows_processed :
           /\ retranslated(in, out, {r}) \ {r} # {}
           /\ lflow_handle_changed_flows({r}, {}, in, out) # out
    /\ \E r \in catalogue \ in.lflows : r \notin out.lflows_processed


\* ------------------------------------------------------------------ C39

\* The rows of the table bound to a datapath, directly or through a group.
rows_of_dp(i, dp, group) ==
    {r \in i.lflows : lflow_table[r].dp_group = group /\ dp \in lflow_dps(r)}

\* Whether a sink is the one lflow_run produces on an input, from an empty
\* translation cache or from the given one.
is_full_run_sink(ft, i, lc) ==
    \/ ft = run_full_sink(i, lflow_cache_new(lc.enabled))
    \/ ft = run_full_sink(i, lc)

\* What lflow_add_flows_for_datapath does to the rows when a datapath
\* becomes local: a processed row is left as it is, a row bound to the
\* datapath is marked processed, a row bound through a group is not.
add_flows_marks(dp, i2, o, o1) ==
    /\ \A r \in o.lflows_processed :
           /\ row_flows(o1, r, dp) = row_flows(o, r, dp)
           /\ lfrr_same_row(o.lfrr, o1.lfrr, r)
    /\ o1.lflows_processed = o.lflows_processed \cup rows_of_dp(i2, dp, FALSE)
    /\ \A r \in rows_of_dp(i2, dp, TRUE) \ o.lflows_processed :
           \A d \in Datapaths \ {dp} : row_flows(o1, r, d) = row_flows(o, r, d)

\* C39: lflow_add_flows_for_datapath(dp) translates no row that is in
\* lflows_processed; it marks the rows bound to dp itself as processed and
\* translates the rows bound through a datapath group for dp only, without
\* marking them; a later lflow_handle_changed_flows or
\* lflow_handle_changed_ref for such a row in the same iteration translates
\* it again and marks it, and the sink is then the sink of a full recompute
\* (the iteration began with the sink of a full recompute).
C39_DatapathAddThenHandler ==
    \A dp \in Datapaths \ in.local_datapaths :
        \E i2 \in {[in EXCEPT !.local_datapaths = @ \cup {dp}]} :
        \E o1 \in {lflow_add_flows_for_datapath(dp, i2, out)} :
            /\ add_flows_marks(dp, i2, out, o1)
            /\ (/\ out.lflows_processed = {}
                /\ is_full_run_sink(out.flow_table, in, out.lflow_cache))
               => /\ \A r \in rows_of_dp(i2, dp, TRUE) :
                         \E o2 \in {lflow_handle_changed_flows({r}, {}, i2, o1)} :
                             /\ r \in o2.lflows_processed
                             /\ is_full_run_sink(o2.flow_table, i2, o2.lflow_cache)
                  /\ \A key \in DOMAIN o1.lfrr.ref_lflow_table :
                         \E h \in {lflow_handle_changed_ref(key, i2, o1)} :
                             /\ DOMAIN o1.lfrr.ref_lflow_table[key]
                                    \cap rows_of_dp(i2, dp, TRUE)
                                    \subseteq h.out.lflows_processed
                             /\ is_full_run_sink(h.out.flow_table, i2,
                                                 h.out.lflow_cache)


\* ------------------------------------------- a handler, statement by statement

\* SpecO runs lflow_handle_changed_flows and lflow_handle_changed_ref one
\* statement group at a time.  cycle is the position in the handler:
\*   phase     "idle", or "reprocess": ofctrl_flood_remove_flows has
\*             returned and the loop over flood_remove_nodes is running
\*   nodes     the flood-removed rows the loop still has to visit
\*   released  whether lflow_resource_destroy_lflow and lflow_conj_ids_free
\*             ran for the first of them
\*   call      the handler and its argument
\*   begin     lflow_ctx_out when the handler was called
IdleO == [phase |-> "idle", nodes |-> <<>>, released |-> FALSE, call |-> <<>>,
          begin |-> <<>>]

InitO ==
    /\ catalogue \in CataloguesC
    /\ in = [lflows |-> {}, port_bindings |-> EmptyFn, mc_groups |-> {},
             addr_sets |-> [n \in AddrSetNames |-> {1, 2}],
             local_datapaths |-> {}, related_lport_ids |-> {}]
    /\ \E enabled \in BOOLEAN : out = out_empty(lflow_cache_new(enabled))
    /\ cycle = IdleO
    /\ last = Last("init", TRUE, FALSE)

\* The loop over flood_remove_nodes begins, or the handler returns when
\* there is no node.
loop_entered(nodes, call, begin) ==
    IF nodes = {} THEN IdleO
    ELSE [phase |-> "reprocess", nodes |-> SetToSeq(nodes), released |-> FALSE,
          call |-> call, begin |-> begin]

\* lflow_handle_changed_flows is called for an added, updated or deleted
\* row and runs up to the return of ofctrl_flood_remove_flows.
ChangedFlowsFloodRemove ==
    /\ cycle.phase = "idle"
    /\ \E r \in catalogue, gone \in BOOLEAN :
           /\ gone => r \in in.lflows
           /\ in' = [in EXCEPT !.lflows = IF gone THEN @ \ {r} ELSE @ \cup {r}]
           /\ out' = changed_flows_flood_removed({r}, {r} \ in.lflows, out)
           /\ cycle' = loop_entered(
                           flood_remove_nodes(out.flow_table,
                                              {r} \ out.lflows_processed),
                           <<"changed_flows", r, r \notin in.lflows>>, out)
    /\ last' = Last("changed_flows", TRUE, TRUE)
    /\ UNCHANGED catalogue

\* lflow_handle_changed_ref is called for the address set and runs up to
\* the return of ofctrl_flood_remove_flows.
ChangedRefFloodRemove ==
    /\ cycle.phase = "idle"
    /\ \E name \in AddrSetNames : \E new \in AddrSetsC \ {in.addr_sets[name]} :
           /\ in' = [in EXCEPT !.addr_sets[name] = new]
           /\ \E key \in {RefKey("ADDRSET", name, 0)} :
              \E todo \in {IF ref_lflow_lookup(out.lfrr.ref_lflow_table, key)
                           THEN lflows_todo(DOMAIN out.lfrr.ref_lflow_table[key],
                                            out.lflows_processed)
                           ELSE {}} :
                  /\ out' = [out EXCEPT !.flow_table =
                                            ofctrl_flood_remove_flows(@, todo)]
                  /\ cycle' = loop_entered(
                                  IF todo = {} THEN {}
                                  ELSE flood_remove_nodes(out.flow_table, todo),
                                  <<"changed_ref", key>>, out)
                  /\ last' = Last("changed_ref", TRUE, todo # {})
    /\ UNCHANGED catalogue

\* The loop releases the references and the conjunction ids of its row.
ReleaseNode ==
    /\ cycle.phase = "reprocess"
    /\ ~cycle.released
    /\ out' = release_node(Head(cycle.nodes), out)
    /\ cycle' = [cycle EXCEPT !.released = TRUE]
    /\ UNCHANGED <<in, catalogue, last>>

\* The loop looks its row up and translates it again; after the last row
\* the handler returns.
TranslateNode ==
    /\ cycle.phase = "reprocess"
    /\ cycle.released
    /\ out' = reprocess_node(Head(cycle.nodes), in, out)
    /\ cycle' = IF Tail(cycle.nodes) = <<>> THEN IdleO
                ELSE [cycle EXCEPT !.nodes = Tail(@), !.released = FALSE]
    /\ UNCHANGED <<in, catalogue, last>>

\* A full recompute between two iterations.
RunFullO ==
    /\ cycle.phase = "idle"
    /\ out' = lflow_run(in, out_empty(out.lflow_cache))
    /\ last' = Last("run_full", TRUE, TRUE)
    /\ UNCHANGED <<in, catalogue, cycle>>

NextO ==
    \/ RunFullO
    \/ NewIteration
    \/ DatapathAddInCycle
    \/ ChangedFlowsFloodRemove
    \/ ChangedRefFloodRemove
    \/ ReleaseNode
    \/ TranslateNode

SpecO == InitO /\ [][NextO]_vars


\* ------------------------------------------------------------------ C31

\* Whether a row has an entry on either side of R.
lfrr_names_row(l, r) ==
    \/ lflow_ref_lookup(l.lflow_ref_table, r)
    \/ \E key \in DOMAIN l.ref_lflow_table : r \in DOMAIN l.ref_lflow_table[key]

\* The flows of a sink that a row owns, alone or with other rows.
owned_by(ft, r) == {f \in ft : r \in f.owners}

\* The loop over flood_remove_nodes is running: no row it still has to visit
\* owns a flow, and the row whose references and ids were released has no
\* entry in R and no conjunction ids.
removed_then_released ==
    cycle.phase = "reprocess" =>
        /\ \A k \in DOMAIN cycle.nodes : owned_by(out.flow_table, cycle.nodes[k]) = {}
        /\ cycle.released =>
               /\ ~lfrr_names_row(out.lfrr, Head(cycle.nodes))
               /\ \A a \in out.conj_ids : a.lflow # Head(cycle.nodes)

\* A step of the loop that translates its row: the row is marked processed;
\* if its cache entry is written the row has been emitted, and if it owns a
\* flow its address set has been recorded in R; and when the handler
\* returns, lflow_ctx_out is what the handler makes of the one it was
\* called with.
translated_then_cached ==
    (cycle.phase = "reprocess" /\ cycle.released) =>
        /\ \E r \in {Head(cycle.nodes)} :
               /\ r \in in.lflows => r \in out'.lflows_processed
               /\ (/\ lflow_cache_get(out'.lflow_cache, r) # lflow_cache_get(out.lflow_cache, r)
                   /\ lflow_cache_get(out'.lflow_cache, r).type # "NONE")
                  => owned_by(out'.flow_table, r) # {}
               /\ (owned_by(out'.flow_table, r) # {} /\ lflow_table[r].as # "")
                  => lfrr_has(out'.lfrr, RefKey("ADDRSET", lflow_table[r].as, 0), r)
        /\ cycle'.phase = "idle" =>
               out' = IF cycle.call[1] = "changed_flows"
                      THEN lflow_handle_changed_flows(
                               {cycle.call[2]},
                               IF cycle.call[3] THEN {cycle.call[2]} ELSE {},
                               in, cycle.begin)
                      ELSE lflow_handle_changed_ref(cycle.call[2], in, cycle.begin).out

\* C31: order of effects within lflow_handle_changed_flows and
\* lflow_handle_changed_ref.  ofctrl_flood_remove_flows has removed the
\* flows of every scheduled row before the first of them is translated
\* again, so no new flow is emitted while an old one is in the sink; for
\* each row translated again its R entries and conjunction ids are released
\* first, then the row is parsed (its references recorded), emitted, and its
\* cache entry written.
C31_HandlerOrder == [](removed_then_released) /\ [][translated_then_cached]_vars

\* The loop has translated a row, which references the address set, and
\* has released the next row; both owned flows and conjunction ids when the
\* handler was called, and a third row is still to be visited.
C31_Witness ==
    /\ cycle.phase = "reprocess"
    /\ cycle.released
    /\ Len(cycle.nodes) >= 2
    /\ \E r \in {Head(cycle.nodes)} :
           /\ owned_by(cycle.begin.flow_table, r) # {}
           /\ \E a \in cycle.begin.conj_ids : a.lflow = r
           /\ r \in in.lflows
    /\ \E r0 \in flood_remove_nodes(cycle.begin.flow_table, {Head(cycle.nodes)}) :
           /\ \A k \in DOMAIN cycle.nodes : cycle.nodes[k] # r0
           /\ lfrr_names_row(cycle.begin.lfrr, r0)
           /\ lfrr_names_row(out.lfrr, r0)
           /\ owned_by(out.flow_table, r0) # {}


\* ------------------------------------------------------------------ C33

\* Nothing of a row is left in lflow_ctx_out.
nothing_left(o, r) ==
    /\ owned_by(o.flow_table, r) = {}
    /\ ~lfrr_names_row(o.lfrr, r)
    /\ \A a \in o.conj_ids : a.lflow # r
    /\ lflow_cache_get(o.lflow_cache, r).type = "NONE"

\* C33: deleted rows leave nothing behind.  When a row that is not in
\* lflows_processed is deleted and lflow_handle_changed_flows and
\* lflow_handle_cached_flows have run for it, the sink holds no flow it
\* owns, R no entry for it on either side, the allocator no conjunction ids
\* of it and the cache no entry for it.
C33_DeletedRowGone ==
    \A r \in in.lflows \ out.lflows_processed :
        \E i2 \in {[in EXCEPT !.lflows = @ \ {r}]} :
        \E o \in {lflow_handle_changed_flows({r}, {}, i2, out)} :
            nothing_left([o EXCEPT !.lflow_cache =
                                      lflow_handle_cached_flows(@, {r}, i2)], r)

\* Two rows that can be deleted: one owns flows, conjunction ids and
\* references, the other owns flows and conjunction ids, shares a flow with
\* a third row and has a cache entry.
C33_Witness ==
    /\ \E r \in in.lflows \ out.lflows_processed :
           /\ owned_by(out.flow_table, r) # {}
           /\ lfrr_names_row(out.lfrr, r)
           /\ \E a \in out.conj_ids : a.lflow = r
    /\ \E r \in in.lflows \ out.lflows_processed :
           /\ \E f \in out.flow_table : r \in f.owners /\ f.owners # {r}
           /\ \E a \in out.conj_ids : a.lflow = r
           /\ lflow_cache_get(out.lflow_cache, r).type # "NONE"


\* ------------------------------------------------------------------ C34

\* Whether lookup_port_cb finds no port binding of the name on the datapath.
port_unknown(i, name, dp) ==
    \/ name \notin DOMAIN i.port_bindings
    \/ i.port_bindings[name].datapath # dp

\* Whether lookup_port_cb finds no multicast group of the name either.
mc_group_missing(i, name, dp) == McGroup(name, dp) \notin i.mc_groups

\* A row skipped on a local datapath for want of the port is recorded under
\* the port name and under the multicast-group key; when both are missing
\* it owns no flow there if it names the port in its match, and no flow that
\* uses a port if it names it in its actions; the creation of either entity makes
\* lflow_handle_changed_ref translate the row again.
skipped_for_port_is_recorded(r, name, dp) ==
    port_unknown(in, name, dp) =>
        /\ recorded_under_port(out, r, name)
        /\ lfrr_has(out.lfrr, RefKey("MC_GROUP", name, dp), r)
        /\ mc_group_missing(in, name, dp) =>
               \A f \in row_flows(out, r, dp) :
                   lflow_table[r].port # name /\ f.act.port = 0
        /\ \E i2 \in {[in EXCEPT !.port_bindings = PutFn(@, name, PortBinding(dp))]} :
           \E h \in {lflow_handle_changed_ref(RefKey("PORTBINDING", name, 0),
                                              i2, begin_cycle(out))} :
               h.changed /\ r \in h.out.lflows_processed
        /\ mc_group_missing(in, name, dp) =>
               \E i2 \in {[in EXCEPT !.mc_groups = @ \cup {McGroup(name, dp)}]} :
               \E h \in {lflow_handle_changed_ref(RefKey("MC_GROUP", name, dp),
                                                  i2, begin_cycle(out))} :
                   h.changed /\ r \in h.out.lflows_processed

\* A row none of whose datapaths is local owns no flow; when one becomes
\* local lflow_add_flows_for_datapath translates the row, which is then
\* recorded under the port name.
skipped_for_datapath_is_added(r, name) ==
    /\ owned_by(out.flow_table, r) = {}
    /\ \A dp \in lflow_dps(r) :
           \E i2 \in {[in EXCEPT !.local_datapaths = @ \cup {dp}]} :
           \E o \in {lflow_add_flows_for_datapath(dp, i2, begin_cycle(out))} :
               /\ recorded_under_port(o, r, name)
               /\ ~lflow_table[r].dp_group => r \in o.lflows_processed

as_indexed_flows(o, as_name, r, ip) ==
    as_ip_flows(o.flow_table, r, as_removal(o, as_name, r, ip).as_info)

\* The local datapaths a row has flows on.
flow_dps(o, r) == {f.dp : f \in {g \in o.flow_table : r \in g.owners}}

\* C36: between handlers, for every row and every address set the row
\* references, the expected-removal count the handler would pass to the sink
\* for an address of the set (the ref_count recorded at the first
\* registration of the row under the set) is the number of flows the sink
\* indexes for the row and that address, whenever it indexes any; also for a
\* row of a datapath group with two or more local datapaths.
C36_RefCountPredictsSink ==
    cycle.phase = "idle" =>
        \A as_name \in AddrSetNames :
            \A r \in as_ref_rows(in, out, as_name) :
                \A ip \in in.addr_sets[as_name] :
                    as_indexed_flows(out, as_name, r, ip) # {} =>
                        Cardinality(as_indexed_flows(out, as_name, r, ip)) =
                            as_removal(out, as_name, r, ip).ref_count

\* The same for the rows that have flows on a single datapath, when the set
\* holds two or more addresses (the addresses of the set are then the
\* values of one clause of a conjunction, or the only condition).
C36_SingleDatapath ==
    cycle.phase = "idle" =>
        \A as_name \in AddrSetNames :
            \A r \in as_ref_rows(in, out, as_name) :
                \A ip \in in.addr_sets[as_name] :
                    /\ as_indexed_flows(out, as_name, r, ip) # {}
                    /\ Cardinality(flow_dps(out, r)) = 1
                    /\ Cardinality(in.addr_sets[as_name]) >= 2
                    => Cardinality(as_indexed_flows(out, as_name, r, ip)) =
                           as_removal(out, as_name, r, ip).ref_count


\* ---------------------------------------------------------------------
\* What the row-level handlers return.
\* ---------------------------------------------------------------------

\* The rows of a run: a conjunctive address-set row next to three rows
\* that take every conjunction id; and a row whose port is never bound, a
\* row whose actions and a row whose match do not parse, next to a row
\* that joins the address set with a constant (its updates are handed
\* back by the fast path).
CataloguesH == {{2, 3, 10, 11}, {7, 8, 9, 15}}

\* Both datapaths are local, no port is bound, the cache is disabled.
InitH ==
    /\ catalogue \in CataloguesH
    /\ in = [lflows |-> {}, port_bindings |-> EmptyFn, mc_groups |-> {},
             addr_sets |-> [n \in AddrSetNames |-> {1, 2}],
             local_datapaths |-> Datapaths, related_lport_ids |-> {}]
    /\ out = out_empty(lflow_cache_new(FALSE))
    /\ cycle = Idle
    /\ last = Last("init", TRUE, FALSE)

NextH ==
    \/ RowAdd
    \/ RowDelete
    \/ AddrSetAddition
    \/ FallbackChangedRef

SpecH == InitH /\ [][NextH]_vars

\* The operations that end in lflow_handle_changed_flows or
\* lflow_handle_changed_ref.
RowLevelOps ==
    {"changed_flows", "changed_ref", "changed_port_bindings", "changed_mc_groups"}

\* C40: lflow_handle_changed_flows and lflow_handle_changed_ref return
\* handled = true on every step, whatever the translation of the rows did
\* (skipped, parse error, no conjunction id left); a step that reports
\* unhandled is a step of the address-set fast path.
C40_RowHandlersAlwaysHandled ==
    [][/\ last'.op \in RowLevelOps => last'.ret
       /\ ~last'.ret => last'.op = "addr_set_update"]_vars

\* lflow_handle_changed_ref translated a row again that got no conjunction
\* id: the row is in the table and registered under the address set, every
\* id is taken by other rows, the row holds none and owns no flow.
C40_Witness ==
    /\ last.op = "changed_ref"
    /\ last.ret
    /\ last.changed
    /\ 2 \in in.lflows
    /\ 2 \in as_ref_rows(in, out, "as1")
    /\ ~\E c \in out.conj_ids : c.lflow = 2
    /\ ~\E f \in out.flow_table : 2 \in f.owners
    /\ Cardinality(out.conj_ids) * 1 >= 1
    /\ \A r \in {3, 10, 11} : \A dp \in Datapaths :
           \E c \in out.conj_ids : c.lflow = r /\ c.dp = dp

\* lflow_handle_changed_ref translated a row again whose match does not
\* parse.
changed_ref_parse_error ==
    /\ last.op = "changed_ref"
    /\ last.ret
    /\ last.changed
    /\ 9 \in as_ref_rows(in, out, "as1")

\* lflow_handle_changed_ref translated a row again that is skipped because
\* its port is not bound.
changed_ref_skipped ==
    /\ last.op = "changed_ref"
    /\ last.ret
    /\ last.changed
    /\ 7 \in as_ref_rows(in, out, "as1")
    /\ ~\E f \in out.flow_table : 7 \in f.owners


\* ---------------------------------------------------------------------
\* A datapath becomes local in the iteration that changes load balancers.
\* ---------------------------------------------------------------------

\* The load balancers of these runs have a name of their own that does not
\* change: 101 is "a" on datapath 1, 102 is "b" on datapath 2.
LbRows(uuid) == {r \in AdjunctRows(uuid) : uuid = 102 => r.name = "b"}

\* The changes a load balancer can be tracked with.
TrackedLbs(table, uuid) ==
    IF uuid \in DOMAIN table
    THEN {Tracked(uuid, table[uuid], TRUE, FALSE)} \cup
         {Tracked(uuid, r, FALSE, FALSE) : r \in LbRows(uuid) \ {table[uuid]}}
    ELSE {Tracked(uuid, r, FALSE, TRUE) : r \in LbRows(uuid)}

\* The load balancers of a datapath, as the caller hands them to
\* lflow_add_flows_for_datapath.
dp_lbs_of(table, dp) ==
    SetToSeq({u \in DOMAIN table :
                  \E i \in DOMAIN table[u].datapaths : table[u].datapaths[i] = dp})

\* phase: what is left to run in the iteration; tracked: the tracked load
\* balancers lflow_handle_changed_lbs is still to see; dp: the datapath
\* lflow_add_flows_for_datapath is still to see.
IdleM == [phase |-> "idle", tracked |-> <<>>, dp |-> 0]

InitM ==
    /\ \E local \in {{}, {1}} :
           in = [port_bindings |-> PutFn(EmptyFn, "p1", PortBinding(1)),
                 local_datapaths |-> local,
                 check_ct_label_for_lb_hairpin |-> FALSE,
                 mac_binding_table |-> EmptyFn, static_mac_binding_table |-> EmptyFn,
                 fdb_table |-> EmptyFn, lb_table |-> EmptyFn]
    /\ out = [flow_table |-> {}, hairpin_lb_ids |-> EmptyFn, hairpin_id_pool |-> {}]
    /\ catalogue = {}
    /\ cycle = IdleM
    /\ last = Last("init", TRUE, FALSE)

\* A full recompute, possibly because a datapath stopped being local.
RunFullM ==
    /\ cycle.phase = "idle"
    /\ \E gone \in {{}} \cup {{dp} : dp \in in.local_datapaths} :
           /\ in' = [in EXCEPT !.local_datapaths = @ \ gone]
           /\ out' = lflow_run_adjuncts(in', [out EXCEPT !.flow_table = {}])
    /\ last' = Last("run_full", TRUE, TRUE)
    /\ UNCHANGED <<catalogue, cycle>>

\* Load balancers change and no datapath becomes local.
LbChangeM ==
    /\ cycle.phase = "idle"
    /\ \E t \in TrackedLbs(in.lb_table, 101) \cup TrackedLbs(in.lb_table, 102) :
           /\ in' = [in EXCEPT !.lb_table = apply_tracked(@, <<t>>)]
           /\ out' = lflow_handle_changed_lbs(<<t>>, in', out)
    /\ last' = Last("changed_lbs", TRUE, TRUE)
    /\ UNCHANGED <<catalogue, cycle>>

\* A datapath becomes local and no load balancer changes.
DatapathAddM ==
    /\ cycle.phase = "idle"
    /\ \E dp \in Datapaths \ in.local_datapaths :
           /\ in' = [in EXCEPT !.local_datapaths = @ \cup {dp}]
           /\ out' = lflow_add_flows_for_datapath_adjuncts(
                         dp, dp_lbs_of(in.lb_table, dp), in', out)
    /\ last' = Last("add_flows_for_datapath", TRUE, TRUE)
    /\ UNCHANGED <<catalogue, cycle>>

\* A datapath becomes local in an iteration that tracks a load balancer,
\* and lflow_add_flows_for_datapath runs first.
DatapathAddBeforeLbs ==
    /\ cycle.phase = "idle"
    /\ \E dp \in Datapaths \ in.local_datapaths :
       \E t \in TrackedLbs(in.lb_table, 101) \cup TrackedLbs(in.lb_table, 102) :
           /\ in' = [in EXCEPT !.local_datapaths = @ \cup {dp},
                               !.lb_table = apply_tracked(@, <<t>>)]
           /\ out' = lflow_add_flows_for_datapath_adjuncts(
                         dp, dp_lbs_of(in'.lb_table, dp), in', out)
           /\ cycle' = [phase |-> "lbs", tracked |-> <<t>>, dp |-> 0]
    /\ last' = Last("add_flows_for_datapath", TRUE, TRUE)
    /\ UNCHANGED catalogue

\* lflow_handle_changed_lbs runs after lflow_add_flows_for_datapath.
HandleChangedLbs ==
    /\ cycle.phase = "lbs"
    /\ out' = lflow_handle_changed_lbs(cycle.tracked, in, out)
    /\ cycle' = IdleM
    /\ last' = Last("changed_lbs", TRUE, TRUE)
    /\ UNCHANGED <<in, catalogue>>

\* A datapath becomes local in an iteration that tracks a load balancer,
\* and lflow_handle_changed_lbs runs first.
LbsBeforeDatapathAdd ==
    /\ cycle.phase = "idle"
    /\ \E dp \in Datapaths \ in.local_datapaths :
       \E t \in TrackedLbs(in.lb_table, 101) \cup TrackedLbs(in.lb_table, 102) :
           /\ in' = [in EXCEPT !.local_datapaths = @ \cup {dp},
                               !.lb_table = apply_tracked(@, <<t>>)]
           /\ out' = lflow_handle_changed_lbs(<<t>>, in', out)
           /\ cycle' = [phase |-> "datapath", tracked |-> <<>>, dp |-> dp]
    /\ last' = Last("changed_lbs", TRUE, TRUE)
    /\ UNCHANGED catalogue

\* lflow_add_flows_for_datapath runs after lflow_handle_changed_lbs.
HandleDatapathAdd ==
    /\ cycle.phase = "datapath"
    /\ out' = lflow_add_flows_for_datapath_adjuncts(
                  cycle.dp, dp_lbs_of(in.lb_table, cycle.dp), in, out)
    /\ cycle' = IdleM
    /\ last' = Last("add_flows_for_datapath", TRUE, TRUE)
    /\ UNCHANGED <<in, catalogue>>

NextM ==
    \/ RunFullM
    \/ LbChangeM
    \/ DatapathAddM
    \/ DatapathAddBeforeLbs
    \/ HandleChangedLbs
    \/ LbsBeforeDatapathAdd
    \/ HandleDatapathAdd

SpecM == InitM /\ [][NextM]_vars

\* The conjunctive hairpin SNAT rules of a load balancer in the sink: the
\* clauses and the rule on the conjunction id.
lb_conj_rules(ft, uuid) ==
    {g \in owned(ft, uuid) :
         /\ g.m.table = "OFTABLE_CT_SNAT_HAIRPIN"
         /\ g.m.priority = 200}

\* The conjunction ids a rule carries.
rule_conj_ids(g) ==
    {c.id : c \in g.conjs} \cup (IF g.conjs = {} THEN {g.m.conj_id} ELSE {})

\* C37: in every state, between and within iterations, every conjunctive
\* hairpin SNAT rule of a load balancer of the table carries the nonzero id
\* stored under the load balancer's name, and none carries the id 0.
C37_HairpinIdStored ==
    \A u \in DOMAIN in.lb_table :
        \A g \in lb_conj_rules(out.flow_table, u) :
            /\ lb_id(u) # 0
            /\ rule_conj_ids(g) = {lb_id(u)}


\* ---------------------------------------------------------------------
\* Port-security rules on the incremental and on the full path.
\* ---------------------------------------------------------------------

\* The port_security column of a port binding: empty, an entry without an
\* Ethernet address, an entry with an Ethernet address only, one with an
\* IPv4 address too, and an invalid entry followed by a valid one.
PortSecurities ==
    {<<>>,
     <<[ea |-> 0, ip4 |-> 0]>>,
     <<[ea |-> 1, ip4 |-> 0]>>,
     <<[ea |-> 1, ip4 |-> 1]>>,
     <<[ea |-> 0, ip4 |-> 0], [ea |-> 2, ip4 |-> 2]>>}

\* The port bindings of these runs: p1 and p2 on datapath 1, each bound to
\* this chassis or not.
PortSecBinding(name, chassis, port_security) ==
    [datapath |-> 1, tunnel_key |-> IF name = "p1" THEN 1 ELSE 2, type |-> "",
     chassis |-> chassis, ha_contains |-> FALSE, ha_active |-> FALSE,
     uuid |-> IF name = "p1" THEN 501 ELSE 502, logical_port |-> name,
     port_security |-> port_security]

PortSecNames == {"p1", "p2"}

\* The table holds the row that matches on the inport p1; datapath 1 is
\* local; both port bindings exist, without port_security, on another
\* chassis and outside the binding lports; the sink is the one of lflow_run.
InitS ==
    /\ catalogue = {4}
    /\ in = [lflows |-> {4},
             port_bindings |-> [n \in PortSecNames |-> PortSecBinding(n, FALSE, <<>>)],
             mc_groups |-> {},
             addr_sets |-> [n \in AddrSetNames |-> {1, 2}],
             local_datapaths |-> {1}, related_lport_ids |-> {<<1, 1>>},
             binding_lports |-> {}]
    /\ out = lflow_run_port_sec(in, out_empty(lflow_cache_new(FALSE)))
    /\ cycle = Idle
    /\ last = Last("init", TRUE, FALSE)

\* A full recompute.
RunFullS ==
    /\ out' = lflow_run_port_sec(in, out_empty(out.lflow_cache))
    /\ last' = Last("run_full", TRUE, TRUE)
    /\ UNCHANGED <<in, catalogue, cycle>>

\* A port binding changes its chassis, its port_security or its place among
\* the binding lports: lflow_handle_flows_for_lport.
LportChange ==
    /\ \E name \in PortSecNames, chassis \in BOOLEAN, ps \in PortSecurities,
          bound \in BOOLEAN :
           /\ in' = [in EXCEPT !.port_bindings[name] = PortSecBinding(name, chassis, ps),
                               !.binding_lports = IF bound THEN @ \cup {name}
                                                  ELSE @ \ {name}]
           /\ in' # in
           /\ \E h \in {lflow_handle_flows_for_lport_port_sec(
                            PortSecBinding(name, chassis, ps), in', begin_cycle(out))} :
                  /\ out' = h.out
                  /\ last' = Last("flows_for_lport", h.ret, h.changed)
    /\ UNCHANGED <<catalogue, cycle>>

NextS ==
    \/ RunFullS
    \/ LportChange

SpecS == InitS /\ [][NextS]_vars

\* The port-security rules lflow_handle_flows_for_lport leaves in the sink
\* for a port binding of the table.
port_sec_rules_incremental(name) ==
    owned(lflow_handle_flows_for_lport_port_sec(in.port_bindings[name], in,
                                                begin_cycle(out)).out.flow_table,
          in.port_bindings[name].uuid)

\* The port-security rules lflow_run installs for it on the same input.
port_sec_rules_full(name) ==
    owned(lflow_run_port_sec(in, out_empty(out.lflow_cache)).flow_table,
          in.port_bindings[name].uuid)

\* C38: in every state, for every port binding pb, whether or not pb is
\* among the binding lports and whether or not its chassis is this chassis,
\* the rules owned by pb after lflow_handle_flows_for_lport(pb) are the
\* rules lflow_run installs for pb on the same input.
C38_PortSecSamePaths ==
    \A name \in PortSecNames :
        port_sec_rules_incremental(name) = port_sec_rules_full(name)

\* The same for the port bindings that are bound to this chassis or are not
\* among the binding lports.
C38_OnThisChassis ==
    \A name \in PortSecNames :
        (in.port_bindings[name].chassis \/ name \notin in.binding_lports) =>
            port_sec_rules_incremental(name) = port_sec_rules_full(name)

\* A port binding with port_security, among the binding lports and bound
\* to this chassis, for which both paths install rules.
port_sec_rules_installed ==
    \E name \in PortSecNames :
        /\ in.port_bindings[name].chassis
        /\ name \in in.binding_lports
        /\ port_sec_rules_full(name) # {}
        /\ owned(out.flow_table, in.port_bindings[name].uuid) # {}

====
